---- MODULE Spec2Model ----
(***************************************************************************)
(* State-machine model of parts of the engine core:                        *)
(*   - MergeTreeReadPool (dbms/include/DB/Storages/MergeTree/              *)
(*     MergeTreeReadPool.h): pre-distribution of mark ranges among threads *)
(*     and task acquisition with work stealing;                            *)
(*   - Aggregator (dbms/src/Interpreters/Aggregator.cpp): execution over a *)
(*     block stream with the group-by cap, the two-phase merge, the choice *)
(*     of the aggregation method and the life cycle of aggregate states;   *)
(*   - DistinctBlockInputStream, TinyLogBlockInputStream and               *)
(*     MemoryBlockInputStream: read() up to and after the end of stream;   *)
(*   - ColumnVector: filter, getPermutation, permute;                      *)
(*   - PushingToViewsBlockOutputStream: write.                             *)
(* Each subsystem has its own variables and its own specification; the     *)
(* variables of the other subsystems stay at their idle value.             *)
(***************************************************************************)
EXTENDS Integers, Sequences, FiniteSets, TLC

----------------------------------------------------------------------------
(* Bounds of the model.                                                    *)

\* number of parts handed to the read pool
MaxParts == 2
\* number of mark ranges selected in one part
MaxRangesPerPart == 2
\* marks of a part are numbered 0 .. MaxMark-1
MaxMark == 4
\* number of reading threads
MaxThreads == 2
\* largest min_marks_for_concurrent_read / min_marks_to_read
MaxMinMarks == 2
\* number of blocks of an input stream of the aggregator
MaxBlocks == 2
\* rows of one block (max_block_size)
MaxBlockRows == 2
\* values of the aggregated column are 1 .. MaxValue
MaxValue == 2
\* largest max_rows_to_group_by (0: no cap)
MaxGroupCap == 1
\* rows of the stream that is partitioned for the two-phase aggregation
MaxStreamRows == 3
\* number of independently aggregated sources that are merged
MaxSources == 2

----------------------------------------------------------------------------
(* Generic helpers.                                                        *)

Min(a, b) == IF a <= b THEN a ELSE b

Reverse(s) == [i \in 1..Len(s) |-> s[Len(s) + 1 - i]]

PopBack(s) == SubSeq(s, 1, Len(s) - 1)

Back(s) == s[Len(s)]

\* "no value": a null pointer / no task
Null == [null |-> TRUE]

----------------------------------------------------------------------------
(* MergeTreeReadPool: data.                                                *)

VARIABLES
    pool_pc,                        \* "fill": in the constructor, "ready": constructed, "failed": constructor threw
    threads,                        \* constructor argument
    sum_marks,                      \* constructor argument
    min_marks_for_concurrent_read,  \* constructor argument
    do_not_steal_tasks,             \* member
    parts,                          \* constructor argument RangesInDataParts, consumed by fillPerThreadInfo
    per_part_sum_marks,             \* local of the constructor, consumed by fillPerThreadInfo
    fill_i,                         \* fillPerThreadInfo: loop variable i
    need_marks,                     \* fillPerThreadInfo: local need_marks of the current thread
    threads_tasks,                  \* member: per-thread queues
    remaining_thread_tasks,         \* member: threads that still have tasks
    last_slice,                     \* history: the slice bitten off by the last step of fillPerThreadInfo
    last_task,                      \* history: the last getTask call and what it returned
    handed                          \* history: how often each mark of each part was returned in a task

poolVars == <<pool_pc, threads, sum_marks, min_marks_for_concurrent_read, do_not_steal_tasks, parts,
              per_part_sum_marks, fill_i, need_marks, threads_tasks, remaining_thread_tasks,
              last_slice, last_task, handed>>

----------------------------------------------------------------------------
(* Aggregator: data.                                                       *)

VARIABLES
    aggregator,         \* the Aggregator's settings: key columns, overflow_row,
                        \*   max_rows_to_group_by, group_by_overflow_mode
    stream,             \* execute: the blocks the input stream delivers
    blocks_read,        \* execute: how many blocks were read from the stream
    result,             \* execute: the AggregatedDataVariants being filled
    no_more_keys,       \* execute: local no_more_keys
    agg_pc,             \* execute: "reading", "done" (returned) or "thrown"; "idle": not used
    sources,            \* two-phase: the row streams S1..Sn (each a sequence of blocks)
    data_variants,      \* two-phase: the results of the sources, merge's argument
    merge_i,            \* merge: loop variable i (index into data_variants, from 1)
    res,                \* merge: index of the variant res points to
    merge_pc            \* two-phase: "aggregating", "merging", "merged", "failed"; "idle": not used

execVars == <<stream, blocks_read, result, no_more_keys, agg_pc>>

mergeVars == <<sources, data_variants, merge_i, res, merge_pc>>

aggVars == <<aggregator, execVars, mergeVars>>

\* the two-phase aggregation is not used
MergeIdle ==
    /\ sources = <<>>
    /\ data_variants = <<>>
    /\ merge_i = 0
    /\ res = 0
    /\ merge_pc = "idle"

\* Aggregator::execute is not used
ExecIdle ==
    /\ blocks_read = 0
    /\ result = Null
    /\ no_more_keys = FALSE
    /\ agg_pc = "idle"

\* the aggregator is not used
AggIdle == aggregator = Null /\ stream = <<>> /\ ExecIdle /\ MergeIdle

----------------------------------------------------------------------------
(* Further objects, one variable each; Null: the object does not exist.    *)

VARIABLES
    choose,             \* a call of Aggregator::chooseAggregationMethod: its key columns and its result
    states,             \* an AggregatedDataVariants with the aggregate states it points to; in SpecConvert
                        \* with the block made of it, in SpecMergeStates two results being merged
    distinct,           \* a DistinctBlockInputStream with its child
    tinylog,            \* a TinyLogBlockInputStream with the file it reads; in SpecReadBuffer a
                        \* ReadBufferFromFileDescriptor with its file
    memory,             \* a StorageMemory with a MemoryBlockInputStream
    column,             \* a ColumnVector with the arguments and the outcome of a call on it; in
                        \* SpecCompare a call of compareAt
    views,              \* a PushingToViewsBlockOutputStream with the tables behind it; in SpecClient
                        \* the Client receiving the result of a query
    mergetree,          \* a MergeTreeData with its parts, its directory, a Transaction and ZooKeeper
    native,             \* a NativeBlockInputStream with the bytes it reads
    profiling,          \* a tree of IProfilingBlockInputStream
    chunkmerger,        \* the StorageChunkMerger objects with currently_written_groups; in
                        \* SpecChunkSwap the tables of the database while chunks are replaced
    datapart            \* a MergeTreeData::DataPart about to be destroyed, with the directory of the
                        \* table; in SpecRemove a DataPart being removed

\* the objects of the storage and stream layer added last
moreVars == <<mergetree, native, profiling, chunkmerger, datapart>>

MoreIdle ==
    /\ mergetree = Null
    /\ native = Null
    /\ profiling = Null
    /\ chunkmerger = Null
    /\ datapart = Null

restVars == <<choose, states, distinct, tinylog, memory, column, views, moreVars>>

RestIdle ==
    /\ choose = Null
    /\ states = Null
    /\ distinct = Null
    /\ tinylog = Null
    /\ memory = Null
    /\ column = Null
    /\ views = Null
    /\ MoreIdle

\* the variables of the other subsystems
nonPoolVars == <<aggVars, restVars>>

nonAggVars == <<poolVars, restVars>>

nonChooseVars == <<poolVars, aggVars, states, distinct, tinylog, memory, column, views, moreVars>>

nonStatesVars == <<poolVars, aggVars, choose, distinct, tinylog, memory, column, views, moreVars>>

nonDistinctVars == <<poolVars, aggVars, choose, states, tinylog, memory, column, views, moreVars>>

nonTinyLogVars == <<poolVars, aggVars, choose, states, distinct, memory, column, views, moreVars>>

nonMemoryVars == <<poolVars, aggVars, choose, states, distinct, tinylog, column, views, moreVars>>

nonColumnVars == <<poolVars, aggVars, choose, states, distinct, tinylog, memory, views, moreVars>>

nonViewsVars == <<poolVars, aggVars, choose, states, distinct, tinylog, memory, column, moreVars>>

oldRestVars == <<choose, states, distinct, tinylog, memory, column, views>>

OldRestIdle ==
    /\ choose = Null
    /\ states = Null
    /\ distinct = Null
    /\ tinylog = Null
    /\ memory = Null
    /\ column = Null
    /\ views = Null

nonMergeTreeVars == <<poolVars, aggVars, oldRestVars, native, profiling, chunkmerger, datapart>>

nonNativeVars == <<poolVars, aggVars, oldRestVars, mergetree, profiling, chunkmerger, datapart>>

nonProfilingVars == <<poolVars, aggVars, oldRestVars, mergetree, native, chunkmerger, datapart>>

nonChunkMergerVars == <<poolVars, aggVars, oldRestVars, mergetree, native, profiling, datapart>>

nonDataPartVars == <<poolVars, aggVars, oldRestVars, mergetree, native, profiling, chunkmerger>>

vars == <<poolVars, aggVars, restVars>>

MarkRange == [begin : 0..MaxMark, end : 0..MaxMark]

\* range.end - range.begin
MarksInRange(range) == range.end - range.begin

RECURSIVE SumMarks(_)
SumMarks(ranges) ==
    IF ranges = <<>> THEN 0 ELSE MarksInRange(Head(ranges)) + SumMarks(Tail(ranges))

\* the marks of a list of ranges
MarksOf(ranges) == UNION { r.begin .. (r.end - 1) : r \in {ranges[i] : i \in 1..Len(ranges)} }

\* ranges listed right-to-left and pairwise non-overlapping
RightToLeft(ranges) ==
    \A i, j \in 1..Len(ranges) : i < j => ranges[i].begin >= ranges[j].end

\* ranges listed left-to-right and pairwise non-overlapping
LeftToRight(ranges) ==
    \A i, j \in 1..Len(ranges) : i < j => ranges[i].end <= ranges[j].begin

\* The ranges of one part as the select executor passes them: at least one
\* range, no empty range, non-overlapping, listed right-to-left.
InputRanges ==
    { rs \in UNION { [1..n -> {r \in MarkRange : r.begin < r.end}] : n \in 1..MaxRangesPerPart } :
        RightToLeft(rs) }

InputParts == UNION { [1..n -> [ranges : InputRanges]] : n \in 1..MaxParts }

RECURSIVE SumMarksOfParts(_)
SumMarksOfParts(ps) ==
    IF ps = <<>> THEN 0 ELSE SumMarks(Head(ps).ranges) + SumMarksOfParts(Tail(ps))

\* fillPerPartInfo: the mark count of every part
fillPerPartInfo(ps) == [i \in 1..Len(ps) |-> SumMarks(ps[i].ranges)]

\* fillPerThreadInfo: min_marks_per_thread = (sum_marks - 1) / threads + 1
min_marks_per_thread(total, nthreads) == ((total - 1) \div nthreads) + 1

----------------------------------------------------------------------------
(* MergeTreeReadPool: the loops over the ranges of a part.                 *)

\* a slip: the range is not advanced past the marks taken from it
AdvanceRange_NotAdvanced(range, marks_to_get_from_range) == range

\* range.begin += marks_to_get_from_range
AdvanceRange(range, marks_to_get_from_range) ==
    [range EXCEPT !.begin = @ + marks_to_get_from_range]

\* getTask, the loop over the ranges of a segment: take need marks from the
\* back of ranges; got collects ranges_to_get_from_part.
RECURSIVE TakeFromRanges(_, _, _)
TakeFromRanges(ranges, need, got) ==
    IF need > 0 /\ ranges # <<>>
    THEN LET range == Back(ranges)
             marks_in_range == MarksInRange(range)
             marks_to_get_from_range == Min(marks_in_range, need)
             advanced == AdvanceRange(range, marks_to_get_from_range)
             rest == IF advanced.begin = advanced.end
                     THEN PopBack(ranges)
                     ELSE [ranges EXCEPT ![Len(ranges)] = advanced]
         IN  TakeFromRanges(rest, need - marks_to_get_from_range,
                 Append(got, [begin |-> range.begin, end |-> range.begin + marks_to_get_from_range]))
    ELSE [ranges |-> ranges, got |-> got, need |-> need, failed |-> FALSE]

\* fillPerThreadInfo, the loop over the ranges of a part: the same, but it
\* throws LOGICAL_ERROR if the ranges end while marks are still needed.
RECURSIVE SpreadFromRanges(_, _, _)
SpreadFromRanges(ranges, need, got) ==
    IF need > 0
    THEN IF ranges = <<>>
         THEN [ranges |-> ranges, got |-> got, need |-> need, failed |-> TRUE]
         ELSE LET range == Back(ranges)
                  marks_in_range == MarksInRange(range)
                  marks_to_get_from_range == Min(marks_in_range, need)
                  advanced == AdvanceRange(range, marks_to_get_from_range)
                  rest == IF advanced.begin = advanced.end
                          THEN PopBack(ranges)
                          ELSE [ranges EXCEPT ![Len(ranges)] = advanced]
              IN  SpreadFromRanges(rest, need - marks_to_get_from_range,
                      Append(got, [begin |-> range.begin, end |-> range.begin + marks_to_get_from_range]))
    ELSE [ranges |-> ranges, got |-> got, need |-> need, failed |-> FALSE]

----------------------------------------------------------------------------
(* MergeTreeReadPool: fillPerThreadInfo.                                   *)

\* a slip: the "do not leave too few rows in a part" rule is missing
FillNeedMarks_MayLeaveFragment(marks_in_part, need, min_marks) ==
    IF marks_in_part >= min_marks /\ need < min_marks THEN min_marks ELSE need

\* How many marks the current thread takes from the part at the back:
\* "do not take too few rows from a part", then "do not leave too few rows
\* in a part".
FillNeedMarks(marks_in_part, need, min_marks) ==
    LET need1 == IF marks_in_part >= min_marks /\ need < min_marks THEN min_marks ELSE need
    IN  IF marks_in_part > need1 /\ marks_in_part - need1 < min_marks
        THEN marks_in_part
        ELSE need1

\* The ranges a thread gets when it takes a whole part: left listed
\* right-to-left.
WholePartRanges(ranges) == ranges

\* The ranges a thread gets when it takes a slice: collected left-to-right,
\* then reversed so that they are listed right-to-left again.
SliceRanges(got) == Reverse(got)

\* The pool before fillPerThreadInfo runs: the constructor arguments, and
\* per_part_sum_marks as fillPerPartInfo computed it. The caller passes the
\* total mark count of the parts as sum_marks.
PoolInit ==
    /\ pool_pc = "fill"
    /\ threads \in 1..MaxThreads
    /\ min_marks_for_concurrent_read \in 1..MaxMinMarks
    /\ do_not_steal_tasks \in BOOLEAN
    /\ parts \in InputParts
    /\ sum_marks = SumMarksOfParts(parts)
    /\ per_part_sum_marks = fillPerPartInfo(parts)
    /\ fill_i = 0
    /\ need_marks = min_marks_per_thread(sum_marks, threads)
    /\ threads_tasks = [t \in 0..(threads - 1) |-> [parts_and_ranges |-> <<>>, sum_marks_in_parts |-> <<>>]]
    /\ remaining_thread_tasks = {}
    /\ last_slice = Null
    /\ last_task = Null
    /\ handed = [p \in 1..Len(parts) |-> [m \in 0..(MaxMark - 1) |-> 0]]

\* One iteration of the inner loop of fillPerThreadInfo (the body of
\* "while (need_marks > 0 && !parts.empty())"), followed by the loop
\* control of both loops.
fillPerThreadInfoStep ==
    /\ pool_pc = "fill"
    /\ LET part_idx == Len(parts)
           part == Back(parts)
           marks_in_part == Back(per_part_sum_marks)
           need == FillNeedMarks(marks_in_part, need_marks, min_marks_for_concurrent_read)
           whole == marks_in_part <= need
           spread == SpreadFromRanges(part.ranges, need, <<>>)
           ranges_to_get_from_part ==
               IF whole THEN WholePartRanges(part.ranges) ELSE SliceRanges(spread.got)
           marks_in_ranges == IF whole THEN marks_in_part ELSE need
           need_after == IF whole THEN need - marks_in_part ELSE spread.need
           parts_after ==
               IF whole THEN PopBack(parts)
               ELSE [parts EXCEPT ![part_idx] = [ranges |-> spread.ranges]]
           sums_after ==
               IF whole THEN PopBack(per_part_sum_marks)
               ELSE [per_part_sum_marks EXCEPT ![part_idx] = marks_in_part - (need - spread.need)]
           inner_goes_on == need_after > 0 /\ parts_after # <<>>
           outer_goes_on == fill_i + 1 < threads /\ parts_after # <<>>
       IN
       IF ~whole /\ spread.failed
       THEN /\ pool_pc' = "failed"
            /\ UNCHANGED <<threads, sum_marks, min_marks_for_concurrent_read, do_not_steal_tasks,
                           parts, per_part_sum_marks, fill_i, need_marks, threads_tasks,
                           remaining_thread_tasks, last_slice, last_task, handed>>
       ELSE /\ parts' = parts_after
            /\ per_part_sum_marks' = sums_after
            /\ threads_tasks' = [threads_tasks EXCEPT ![fill_i] =
                   [parts_and_ranges |-> Append(@.parts_and_ranges,
                                            [part_idx |-> part_idx, ranges |-> ranges_to_get_from_part]),
                    sum_marks_in_parts |-> Append(@.sum_marks_in_parts, marks_in_ranges)]]
            /\ remaining_thread_tasks' =
                   IF marks_in_ranges # 0 THEN remaining_thread_tasks \cup {fill_i}
                   ELSE remaining_thread_tasks
            /\ last_slice' = [thread |-> fill_i, part_idx |-> part_idx, whole |-> whole,
                              marks |-> marks_in_ranges, ranges |-> ranges_to_get_from_part,
                              left |-> IF whole THEN 0 ELSE Back(sums_after)]
            /\ IF inner_goes_on
               THEN /\ need_marks' = need_after
                    /\ UNCHANGED <<fill_i, pool_pc>>
               ELSE IF outer_goes_on
               THEN /\ need_marks' = min_marks_per_thread(sum_marks, threads)
                    /\ fill_i' = fill_i + 1
                    /\ UNCHANGED pool_pc
               ELSE /\ need_marks' = need_after
                    /\ fill_i' = fill_i + 1
                    /\ pool_pc' = "ready"
            /\ UNCHANGED <<threads, sum_marks, min_marks_for_concurrent_read, do_not_steal_tasks,
                           last_task, handed>>
    /\ UNCHANGED nonPoolVars

----------------------------------------------------------------------------
(* MergeTreeReadPool: getTask.                                             *)

\* a slip: the "do not leave too few rows" rule is missing
NeedMarksToRead_MayLeaveFragment(marks_in_part, min_marks_to_read) ==
    Min(marks_in_part, min_marks_to_read)

\* How many marks a call takes from a segment holding marks_in_part marks:
\* min(marks_in_part, min_marks_to_read), but the whole segment rather than
\* leaving fewer than min_marks_to_read marks in it.
NeedMarksToRead(marks_in_part, min_marks_to_read) ==
    LET need == Min(marks_in_part, min_marks_to_read)
    IN  IF marks_in_part > need /\ marks_in_part - need < min_marks_to_read
        THEN marks_in_part
        ELSE need

\* a slip: the ranges of a whole segment are returned as queued
WholeSegmentRanges_NotReversed(ranges) == ranges

\* The whole segment is taken: its ranges, listed right-to-left in the
\* queue, are reversed ("restore the order of the ranges").
WholeSegmentRanges(ranges) == Reverse(ranges)

\* a slip: the queue of *std::begin(remaining_thread_tasks) is served even
\* while the calling thread has tasks of its own
ThreadsToServe_AlwaysFirstRemaining(thread) ==
    LET tasks_remaining_for_this_thread == threads_tasks[thread].sum_marks_in_parts # <<>>
    IN  IF remaining_thread_tasks = {} THEN {}
        ELSE IF ~tasks_remaining_for_this_thread /\ do_not_steal_tasks THEN {}
        ELSE remaining_thread_tasks

\* a slip: a thread whose own queue is empty is never served from another
ThreadsToServe_NeverSteals(thread) ==
    LET tasks_remaining_for_this_thread == threads_tasks[thread].sum_marks_in_parts # <<>>
    IN  IF remaining_thread_tasks = {} THEN {}
        ELSE IF tasks_remaining_for_this_thread THEN {thread}
        ELSE {}

\* The queues getTask(..., thread) may serve from: the thread's own queue while
\* it has tasks; otherwise, unless stealing is disabled, the queue of
\* *std::begin(remaining_thread_tasks), which for an unordered_set is any
\* element; otherwise none.
ThreadsToServe(thread) ==
    LET tasks_remaining_for_this_thread == threads_tasks[thread].sum_marks_in_parts # <<>>
    IN  IF remaining_thread_tasks = {} THEN {}
        ELSE IF ~tasks_remaining_for_this_thread /\ do_not_steal_tasks THEN {}
        ELSE IF tasks_remaining_for_this_thread THEN {thread}
        ELSE remaining_thread_tasks

\* handed, after the marks of ranges of part part_idx were returned once more
HandOut(part_idx, ranges) ==
    [handed EXCEPT ![part_idx] = [m \in DOMAIN @ |->
        @[m] + Cardinality({i \in 1..Len(ranges) : ranges[i].begin <= m /\ m < ranges[i].end})]]

\* getTask(min_marks_to_read, thread); the whole body runs under the mutex.
getTask(min_marks_to_read, thread) ==
    /\ pool_pc = "ready"
    /\ IF ThreadsToServe(thread) = {}
       THEN /\ last_task' = [thread |-> thread, min_marks_to_read |-> min_marks_to_read,
                             returned |-> FALSE]
            /\ UNCHANGED <<threads_tasks, remaining_thread_tasks, handed>>
       ELSE \E thread_idx \in ThreadsToServe(thread) :
            LET thread_tasks == threads_tasks[thread_idx]
                thread_task == Back(thread_tasks.parts_and_ranges)
                part_idx == thread_task.part_idx
                marks_in_part == Back(thread_tasks.sum_marks_in_parts)
                need == NeedMarksToRead(marks_in_part, min_marks_to_read)
                whole == marks_in_part <= need
                taken == TakeFromRanges(thread_task.ranges, need, <<>>)
                ranges_to_get_from_part ==
                    IF whole THEN WholeSegmentRanges(thread_task.ranges) ELSE taken.got
                marks_after == IF whole THEN 0 ELSE marks_in_part - (need - taken.need)
                n == Len(thread_tasks.parts_and_ranges)
                tasks_after ==
                    IF whole
                    THEN [parts_and_ranges |-> PopBack(thread_tasks.parts_and_ranges),
                          sum_marks_in_parts |-> PopBack(thread_tasks.sum_marks_in_parts)]
                    ELSE [parts_and_ranges |->
                              [thread_tasks.parts_and_ranges EXCEPT ![n] =
                                  [part_idx |-> part_idx, ranges |-> taken.ranges]],
                          sum_marks_in_parts |->
                              [thread_tasks.sum_marks_in_parts EXCEPT
                                  ![Len(thread_tasks.sum_marks_in_parts)] = marks_after]]
            IN  /\ threads_tasks' = [threads_tasks EXCEPT ![thread_idx] = tasks_after]
                /\ remaining_thread_tasks' =
                       IF whole /\ tasks_after.sum_marks_in_parts = <<>>
                       THEN remaining_thread_tasks \ {thread_idx}
                       ELSE remaining_thread_tasks
                /\ handed' = HandOut(part_idx, ranges_to_get_from_part)
                /\ last_task' = [thread |-> thread, min_marks_to_read |-> min_marks_to_read,
                                 returned |-> TRUE, thread_idx |-> thread_idx,
                                 part_idx |-> part_idx, mark_ranges |-> ranges_to_get_from_part,
                                 whole |-> whole, marks_before |-> marks_in_part,
                                 marks_after |-> marks_after]
    /\ UNCHANGED <<pool_pc, threads, sum_marks, min_marks_for_concurrent_read, do_not_steal_tasks,
                   parts, per_part_sum_marks, fill_i, need_marks, last_slice>>
    /\ UNCHANGED nonPoolVars

GetTask == \E thread \in 0..(threads - 1) : \E min_marks_to_read \in 1..MaxMinMarks :
               getTask(min_marks_to_read, thread)

InitPool == PoolInit /\ AggIdle /\ RestIdle

NextPool == fillPerThreadInfoStep \/ GetTask

SpecPool == InitPool /\ [][NextPool]_vars

----------------------------------------------------------------------------
(* Aggregator: aggregate functions, keys, results.                         *)

\* The aggregate functions of the query "SELECT k, sum(v), count() GROUP BY
\* k": the state of a group holds the states of both functions.
AggCreate == [sum |-> 0, count |-> 0]

AggAdd(state, row) == [sum |-> state.sum + row.v, count |-> state.count + 1]

AggMerge(dst, src) == [sum |-> dst.sum + src.sum, count |-> dst.count + src.count]

\* createAggregateStates: create() of every function at its offset
createAggregateStates == AggCreate

Keys == {"a", "b", "c"}

Values == 1..MaxValue

Rows == [k : Keys, v : Values]

\* what chooseAggregationMethod asks of a key column
ColumnString ==
    [class |-> "ColumnString", isFixed |-> FALSE, isNumeric |-> FALSE, sizeOfField |-> 0]

ColumnUInt64 ==
    [class |-> "ColumnVector", isFixed |-> TRUE, isNumeric |-> TRUE, sizeOfField |-> 8]

\* a fixed-length byte-string column of n bytes per value: of fixed width
ColumnFixedString(n) ==
    [class |-> "ColumnFixedString", isFixed |-> TRUE, isNumeric |-> FALSE, sizeOfField |-> n]

ColumnUInt8 ==
    [class |-> "ColumnVector", isFixed |-> TRUE, isNumeric |-> TRUE, sizeOfField |-> 1]

ColumnArray ==
    [class |-> "ColumnArray", isFixed |-> FALSE, isNumeric |-> FALSE, sizeOfField |-> 0]

RECURSIVE SumOfSizes(_)
SumOfSizes(key_columns) ==
    IF key_columns = <<>> THEN 0
    ELSE Head(key_columns).sizeOfField + SumOfSizes(Tail(key_columns))

\* a slip: the single-string methods are tried before the packed keys
chooseAggregationMethod_StringsBeforePacked(key_columns) ==
    LET keys_size == Len(key_columns)
        all_fixed == \A j \in 1..keys_size : key_columns[j].isFixed
        keys_fit_128_bits == all_fixed /\ SumOfSizes(key_columns) <= 16
    IN  IF keys_size = 0 THEN "WITHOUT_KEY"
        ELSE IF keys_size = 1 /\ key_columns[1].isNumeric THEN "KEY_64"
        ELSE IF keys_size = 1 /\ key_columns[1].class = "ColumnString" THEN "KEY_STRING"
        ELSE IF keys_size = 1 /\ key_columns[1].class = "ColumnFixedString" THEN "KEY_FIXED_STRING"
        ELSE IF keys_fit_128_bits THEN "KEYS_128"
        ELSE "HASHED"

chooseAggregationMethod(key_columns) ==
    LET keys_size == Len(key_columns)
        all_fixed == \A j \in 1..keys_size : key_columns[j].isFixed
        keys_fit_128_bits == all_fixed /\ SumOfSizes(key_columns) <= 16
    IN  IF keys_size = 0 THEN "WITHOUT_KEY"
        ELSE IF keys_size = 1 /\ key_columns[1].isNumeric THEN "KEY_64"
        ELSE IF keys_fit_128_bits THEN "KEYS_128"
        ELSE IF keys_size = 1 /\ key_columns[1].class = "ColumnString" THEN "KEY_STRING"
        ELSE IF keys_size = 1 /\ key_columns[1].class = "ColumnFixedString" THEN "KEY_FIXED_STRING"
        ELSE "HASHED"

\* the variants that keep a hash table
KeyedTypes == {"KEY_64", "KEY_STRING", "KEY_FIXED_STRING", "KEYS_128", "HASHED"}

\* the hash table of a variant: a function from the keys it holds to their states
EmptyData == [k \in {} |-> AggCreate]

\* a default-constructed AggregatedDataVariants
EmptyVariants ==
    [type |-> "EMPTY", data |-> EmptyData, without_key |-> Null, aggregator |-> FALSE]

\* data after emplace of key with a fresh state
Emplace(data, key) ==
    [x \in (DOMAIN data) \cup {key} |-> IF x \in DOMAIN data THEN data[x] ELSE createAggregateStates]

\* AggregatedDataVariants::size(): the rows convertToBlock emits, i.e. the
\* groups of the hash table and the without_key row
size(variants) ==
    IF variants.type = "EMPTY" THEN 0
    ELSE IF variants.type = "WITHOUT_KEY" THEN 1
    ELSE Cardinality(DOMAIN variants.data) + (IF variants.without_key # Null THEN 1 ELSE 0)

----------------------------------------------------------------------------
(* Aggregator: execute.                                                    *)

\* a slip: new keys are inserted although no_more_keys is set
MayInsert_Always(nmk) == TRUE

\* executeImpl: "if (!no_more_keys)" - insert; otherwise only look up
MayInsert(nmk) == ~nmk

\* executeImpl: the loop over the rows of a block, from row i on.
\* table.data is method.data, table.overflow_row the state overflow_row
\* points to (Null: no overflow row).
RECURSIVE executeImpl(_, _, _, _)
executeImpl(table, block, nmk, i) ==
    IF i > Len(block) THEN table
    ELSE LET key == block[i].k
             present == key \in DOMAIN table.data
             inserted == MayInsert(nmk) /\ ~present
             overflow == ~MayInsert(nmk) /\ ~present
         IN  IF overflow /\ table.overflow_row = Null
             THEN executeImpl(table, block, nmk, i + 1)
             ELSE LET data1 == IF inserted THEN Emplace(table.data, key) ELSE table.data
                      next == IF ~overflow
                              THEN [data |-> [data1 EXCEPT ![key] = AggAdd(@, block[i])],
                                    overflow_row |-> table.overflow_row]
                              ELSE [data |-> data1,
                                    overflow_row |-> AggAdd(table.overflow_row, block[i])]
                  IN  executeImpl(next, block, nmk, i + 1)

\* executeOnBlock, WITHOUT_KEY: add every row of the block to one state
RECURSIVE AddRows(_, _, _)
AddRows(state, block, i) ==
    IF i > Len(block) THEN state ELSE AddRows(AggAdd(state, block[i]), block, i + 1)

\* a slip: the cap is compared one too high
LimitExceeded_OffByOne(agg, nmk, result_size) ==
    ~nmk /\ agg.max_rows_to_group_by # 0 /\ result_size > agg.max_rows_to_group_by + 1

\* executeOnBlock, "check of the limits"
LimitExceeded(agg, nmk, result_size) ==
    ~nmk /\ agg.max_rows_to_group_by # 0 /\ result_size > agg.max_rows_to_group_by

\* a slip: mode break goes on reading
OnLimit_BreakIgnored(mode) ==
    IF mode = "THROW" THEN "throw" ELSE IF mode = "ANY" THEN "no_more_keys" ELSE "go_on"

\* a slip: mode any does not set no_more_keys
OnLimit_AnyIgnored(mode) ==
    IF mode = "THROW" THEN "throw" ELSE IF mode = "BREAK" THEN "return_false" ELSE "go_on"

\* executeOnBlock, what an exceeded cap leads to
OnLimit(mode) ==
    IF mode = "THROW" THEN "throw"
    ELSE IF mode = "BREAK" THEN "return_false"
    ELSE IF mode = "ANY" THEN "no_more_keys"
    ELSE "logical_error"

\* executeOnBlock(block, result, ..., no_more_keys): the result object and
\* no_more_keys after the call, and how the call ended ("true", "false",
\* "throw").
executeOnBlock(agg, variants, block, nmk) ==
    LET r0 == [variants EXCEPT !.aggregator = TRUE]
        r1 == IF r0.type = "EMPTY"
              THEN [r0 EXCEPT !.type = chooseAggregationMethod(agg.key_columns)]
              ELSE r0
        r2 == IF agg.overflow_row /\ r1.without_key = Null
              THEN [r1 EXCEPT !.without_key = createAggregateStates]
              ELSE r1
        r3 == IF r2.type = "WITHOUT_KEY"
              THEN [r2 EXCEPT !.without_key =
                       AddRows(IF @ = Null THEN createAggregateStates ELSE @, block, 1)]
              ELSE r2
        overflow_row_ptr == IF agg.overflow_row THEN r3.without_key ELSE Null
        table == executeImpl([data |-> r3.data, overflow_row |-> overflow_row_ptr], block, nmk, 1)
        r4 == IF r3.type \in KeyedTypes
              THEN [r3 EXCEPT !.data = table.data,
                              !.without_key = IF agg.overflow_row THEN table.overflow_row ELSE @]
              ELSE r3
        on_limit == IF LimitExceeded(agg, nmk, size(r4))
                    THEN OnLimit(agg.group_by_overflow_mode)
                    ELSE "go_on"
    IN  [result |-> r4,
         no_more_keys |-> (nmk \/ on_limit = "no_more_keys"),
         ret |-> IF on_limit \in {"throw", "logical_error"} THEN "throw"
                 ELSE IF on_limit = "return_false" THEN "false"
                 ELSE "true"]

\* Aggregator::execute over a whole stream, from block pos + 1 on: the
\* result object when it returns or throws.
RECURSIVE execute(_, _, _, _, _)
execute(agg, blocks, pos, variants, nmk) ==
    IF pos >= Len(blocks) THEN [result |-> variants, thrown |-> FALSE]
    ELSE LET o == executeOnBlock(agg, variants, blocks[pos + 1], nmk)
         IN  IF o.ret = "throw" THEN [result |-> o.result, thrown |-> TRUE]
             ELSE IF o.ret = "false" THEN [result |-> o.result, thrown |-> FALSE]
             ELSE execute(agg, blocks, pos + 1, o.result, o.no_more_keys)

\* the blocks a stream can deliver: never empty, at most MaxBlockRows rows
InputBlocks == UNION { [1..n -> Rows] : n \in 1..MaxBlockRows }

InputStreams == UNION { [1..n -> InputBlocks] : n \in 0..MaxBlocks }

\* the input of the scenario "group-by overflow 'any'": one block,
\* k = [a, b, a, b, a], v = [1, 2, 3, 4, 5]
ScenarioStream ==
    << << [k |-> "a", v |-> 1], [k |-> "b", v |-> 2], [k |-> "a", v |-> 3],
          [k |-> "b", v |-> 4], [k |-> "a", v |-> 5] >> >>

OverflowModes == {"THROW", "BREAK", "ANY"}

\* the settings an Aggregator is constructed with
AggregatorSettings ==
    [key_columns : {<<>>, <<ColumnString>>},
     overflow_row : BOOLEAN,
     max_rows_to_group_by : 0..MaxGroupCap,
     group_by_overflow_mode : OverflowModes]

\* the read pool is not used
PoolIdle ==
    /\ pool_pc = "idle"
    /\ threads = 0
    /\ sum_marks = 0
    /\ min_marks_for_concurrent_read = 0
    /\ do_not_steal_tasks = FALSE
    /\ parts = <<>>
    /\ per_part_sum_marks = <<>>
    /\ fill_i = 0
    /\ need_marks = 0
    /\ threads_tasks = <<>>
    /\ remaining_thread_tasks = {}
    /\ last_slice = Null
    /\ last_task = Null
    /\ handed = <<>>

\* execute(stream, result) is entered: no block read, result empty
InitAgg ==
    /\ aggregator \in AggregatorSettings
    /\ stream \in InputStreams \cup {ScenarioStream}
    /\ blocks_read = 0
    /\ result = EmptyVariants
    /\ no_more_keys = FALSE
    /\ agg_pc = "reading"
    /\ MergeIdle
    /\ PoolIdle
    /\ RestIdle

\* execute: stream->read() returns a block, executeOnBlock processes it
executeReadBlock ==
    /\ agg_pc = "reading"
    /\ blocks_read < Len(stream)
    /\ LET o == executeOnBlock(aggregator, result, stream[blocks_read + 1], no_more_keys)
       IN  /\ blocks_read' = blocks_read + 1
           /\ result' = o.result
           /\ no_more_keys' = o.no_more_keys
           /\ agg_pc' = IF o.ret = "throw" THEN "thrown"
                        ELSE IF o.ret = "false" THEN "done"
                        ELSE "reading"
    /\ UNCHANGED <<aggregator, stream, mergeVars>>
    /\ UNCHANGED nonAggVars

\* execute: stream->read() returns an empty block, the loop ends
executeEndOfStream ==
    /\ agg_pc = "reading"
    /\ blocks_read = Len(stream)
    /\ agg_pc' = "done"
    /\ UNCHANGED <<aggregator, stream, blocks_read, result, no_more_keys, mergeVars>>
    /\ UNCHANGED nonAggVars

NextAgg == executeReadBlock \/ executeEndOfStream

SpecAgg == InitAgg /\ [][NextAgg]_vars

----------------------------------------------------------------------------
(* Aggregator: two-phase aggregation, merge(ManyAggregatedDataVariants).   *)

\* a slip: the states of keys new to the destination are not taken over
mergeDataImpl_DropsNewKeys(dst, src) ==
    [k \in DOMAIN dst |-> IF k \in DOMAIN src THEN AggMerge(dst[k], src[k]) ELSE dst[k]]

\* mergeDataImpl(method_dst, method_src): the destination table afterwards.
\* Every key of src is emplaced in dst: a key dst held gets the states
\* merged (and the source states destroyed), a new key takes over the
\* pointer to the source states.
mergeDataImpl(dst, src) ==
    [k \in (DOMAIN dst) \cup (DOMAIN src) |->
        IF k \in DOMAIN src
        THEN IF k \in DOMAIN dst THEN AggMerge(dst[k], src[k]) ELSE src[k]
        ELSE dst[k]]

\* the rows of a stream, delivered in blocks of at most MaxBlockRows rows
RECURSIVE InBlocks(_)
InBlocks(rows) ==
    IF rows = <<>> THEN <<>>
    ELSE IF Len(rows) <= MaxBlockRows THEN <<rows>>
    ELSE <<SubSeq(rows, 1, MaxBlockRows)>> \o InBlocks(SubSeq(rows, MaxBlockRows + 1, Len(rows)))

\* the rows of S that the partition assigns to source i, in their order
RECURSIVE RowsOfSource(_, _, _)
RowsOfSource(S, assignment, i) ==
    IF S = <<>> THEN <<>>
    ELSE LET rest == RowsOfSource(Tail(S), Tail(assignment), i)
         IN  IF Head(assignment) = i THEN <<Head(S)>> \o rest ELSE rest

\* A row stream S is partitioned into S1..Sn; every source is aggregated by
\* an Aggregator with the same settings and no group cap.
InitMerge ==
    /\ aggregator \in {a \in AggregatorSettings :
           a.max_rows_to_group_by = 0 /\ a.group_by_overflow_mode = "THROW"}
    /\ \E S \in UNION { [1..l -> Rows] : l \in 0..MaxStreamRows } :
       \E n \in 1..MaxSources :
       \E assignment \in [1..Len(S) -> 1..n] :
           /\ stream = InBlocks(S)
           /\ sources = [i \in 1..n |-> InBlocks(RowsOfSource(S, assignment, i))]
           /\ data_variants = [i \in 1..n |-> Null]
    /\ merge_i = 0
    /\ res = 0
    /\ merge_pc = "aggregating"
    /\ ExecIdle
    /\ PoolIdle
    /\ RestIdle

\* source i is aggregated: execute(Si, result_i)
aggregateSource(i) ==
    /\ merge_pc = "aggregating"
    /\ data_variants[i] = Null
    /\ data_variants' = [data_variants EXCEPT ![i] =
           execute(aggregator, sources[i], 0, EmptyVariants, FALSE).result]
    /\ UNCHANGED <<aggregator, sources, merge_i, res, merge_pc, execVars>>
    /\ UNCHANGED nonAggVars

AggregateSource == \E i \in 1..Len(sources) : aggregateSource(i)

\* a slip: the methods of the two results are not compared
CannotMerge_NotCompared(res_type, current_type) == FALSE

\* merge: "if (res->type != current.type) throw
\* CANNOT_MERGE_DIFFERENT_AGGREGATED_DATA_VARIANTS"
CannotMerge(res_type, current_type) == res_type # current_type

\* merge(data_variants) is entered: res = data_variants[0], the loop starts
\* at the second variant
mergeBegin ==
    /\ merge_pc = "aggregating"
    /\ \A i \in 1..Len(data_variants) : data_variants[i] # Null
    /\ res' = 1
    /\ merge_i' = 2
    /\ merge_pc' = "merging"
    /\ UNCHANGED <<aggregator, sources, data_variants, execVars>>
    /\ UNCHANGED nonAggVars

\* merge: one iteration of the loop over the variants
mergeStep ==
    /\ merge_pc = "merging"
    /\ merge_i <= Len(data_variants)
    /\ LET current == data_variants[merge_i]
           dst == data_variants[res]
           without_key == IF dst.type = "WITHOUT_KEY" \/ aggregator.overflow_row
                          THEN AggMerge(dst.without_key, current.without_key)
                          ELSE dst.without_key
           data == IF dst.type \in KeyedTypes
                   THEN mergeDataImpl(dst.data, current.data)
                   ELSE dst.data
       IN  IF current.type = "EMPTY"
           THEN /\ merge_i' = merge_i + 1
                /\ UNCHANGED <<res, data_variants, merge_pc>>
           ELSE IF dst.type = "EMPTY"
           THEN /\ res' = merge_i
                /\ merge_i' = merge_i + 1
                /\ UNCHANGED <<data_variants, merge_pc>>
           ELSE IF CannotMerge(dst.type, current.type)
           THEN /\ merge_pc' = "failed"
                /\ UNCHANGED <<res, merge_i, data_variants>>
           ELSE /\ data_variants' = [data_variants EXCEPT
                       ![res] = [dst EXCEPT !.without_key = without_key, !.data = data],
                       ![merge_i] = [current EXCEPT !.aggregator = FALSE]]
                /\ merge_i' = merge_i + 1
                /\ UNCHANGED <<res, merge_pc>>
    /\ UNCHANGED <<aggregator, sources, execVars>>
    /\ UNCHANGED nonAggVars

\* merge: the loop is over, res is returned
mergeReturn ==
    /\ merge_pc = "merging"
    /\ merge_i > Len(data_variants)
    /\ merge_pc' = "merged"
    /\ UNCHANGED <<aggregator, sources, data_variants, merge_i, res, execVars>>
    /\ UNCHANGED nonAggVars

NextMerge == AggregateSource \/ mergeBegin \/ mergeStep \/ mergeReturn

SpecMerge == InitMerge /\ [][NextMerge]_vars

\* number of results handed to merge when their methods may differ
MaxMergeVariants == 3

\* the key column of a block: its class decides the method of the result
OneKeyColumns == {<<ColumnUInt64>>, <<ColumnString>>, <<ColumnFixedString(17)>>}

\* merge(data_variants) over results that were built from streams whose key
\* column is of different classes; a stream without blocks leaves its
\* result empty. aggregator.key_columns are the key columns of the first
\* stream.
InitMergeTypes ==
    /\ \E n \in 1..MaxMergeVariants :
       \E key_columns \in [1..n -> OneKeyColumns] :
       \E rows \in [1..n -> UNION { [1..l -> Rows] : l \in 0..1 }] :
       \E overflow_row \in BOOLEAN :
           /\ aggregator = [key_columns |-> key_columns[1], overflow_row |-> overflow_row,
                            max_rows_to_group_by |-> 0, group_by_overflow_mode |-> "THROW"]
           /\ sources = [i \in 1..n |-> InBlocks(rows[i])]
           /\ data_variants = [i \in 1..n |->
                  execute([aggregator EXCEPT !.key_columns = key_columns[i]],
                          InBlocks(rows[i]), 0, EmptyVariants, FALSE).result]
    /\ stream = <<>>
    /\ merge_i = 0
    /\ res = 0
    /\ merge_pc = "aggregating"
    /\ ExecIdle
    /\ PoolIdle
    /\ RestIdle

NextMergeTypes == mergeBegin \/ mergeStep \/ mergeReturn

SpecMergeTypes == InitMergeTypes /\ [][NextMergeTypes]_vars

----------------------------------------------------------------------------
(* Aggregator: the choice of the aggregation method.                       *)

\* number of key columns of a GROUP BY
MaxKeys == 3

\* lengths of the fixed-length byte-string columns
FixedStringLengths == {1, 16, 17}

\* the columns a key can be
KeyColumnKinds ==
    {ColumnUInt8, ColumnUInt64, ColumnString, ColumnArray}
        \cup {ColumnFixedString(n) : n \in FixedStringLengths}

\* the key columns of a first block
KeyColumnSets == UNION { [1..n -> KeyColumnKinds] : n \in 0..MaxKeys }

InitChoose ==
    /\ \E key_columns \in KeyColumnSets : choose = [key_columns |-> key_columns, type |-> "EMPTY"]
    /\ states = Null /\ distinct = Null /\ tinylog = Null /\ memory = Null
    /\ column = Null /\ views = Null
    /\ MoreIdle
    /\ AggIdle
    /\ PoolIdle

\* executeOnBlock on an empty result: result.init(chooseAggregationMethod(...))
chooseMethod ==
    /\ choose # Null
    /\ choose.type = "EMPTY"
    /\ choose' = [choose EXCEPT !.type = chooseAggregationMethod(choose.key_columns)]
    /\ UNCHANGED nonChooseVars

NextChoose == chooseMethod

SpecChoose == InitChoose /\ [][NextChoose]_vars

----------------------------------------------------------------------------
(* MergeTreeReadPool: properties.                                          *)

\* the last getTask call returned a task
TaskReturned == last_task # Null /\ last_task.returned

\* the marks of part p returned so far
HandedMarks(p) == {m \in DOMAIN handed[p] : handed[p][m] >= 1}

\* thread u has tasks in its own queue
HasTasks(u) == threads_tasks[u].sum_marks_in_parts # <<>>

\* C1: whatever the threads and the order of their getTask calls, with or
\* without stealing, no mark of any part is returned in two tasks (nor twice
\* in one task): the tasks of one part have pairwise-disjoint mark ranges.
C1_TasksDisjoint ==
    \A p \in DOMAIN handed : \A m \in DOMAIN handed[p] : handed[p][m] <= 1

\* C1 witness: a task was returned for a part of which another task had
\* been returned before, to another thread's call.
C1_Witness ==
    /\ TaskReturned
    /\ last_task.thread # last_task.thread_idx
    /\ HandedMarks(last_task.part_idx) \ MarksOf(last_task.mark_ranges) # {}

\* C2: a call of a thread whose own queue has tasks is served from that
\* queue; otherwise, with stealing allowed, it is served from the queue of a
\* thread that has tasks (if there is one); otherwise (own queue empty,
\* stealing disabled) it returns none, whatever the other threads have.
C2_Step ==
    pool_pc = "ready" =>
        LET t == last_task'
            own == HasTasks(t.thread)
            some == \E u \in DOMAIN threads_tasks : HasTasks(u)
        IN  /\ own => t.returned /\ t.thread_idx = t.thread
            /\ (~own /\ ~do_not_steal_tasks /\ some) =>
                   t.returned /\ t.thread_idx # t.thread /\ HasTasks(t.thread_idx)
            /\ (~own /\ do_not_steal_tasks) => ~t.returned
            /\ ~some => ~t.returned

C2_ServeOwnThenSteal == [][C2_Step]_vars

\* C2 witness: a call was served from another thread's queue.
C2_Witness ==
    /\ TaskReturned
    /\ ~do_not_steal_tasks
    /\ last_task.thread_idx # last_task.thread

\* C3: a call takes min(marks_in_segment, min_marks_to_read) marks from the
\* segment it serves, or the whole segment when that would leave a
\* non-empty remainder below min_marks_to_read; so the segment is left with
\* no marks or with at least min_marks_to_read.
C3_TakenMarks ==
    TaskReturned =>
        LET before == last_task.marks_before
            m == last_task.min_marks_to_read
            took == SumMarks(last_task.mark_ranges)
            queue == threads_tasks[last_task.thread_idx].parts_and_ranges
            left == IF last_task.whole THEN 0 ELSE SumMarks(Back(queue).ranges)
        IN  /\ took + left = before
            /\ left = last_task.marks_after
            /\ IF before > Min(before, m) /\ before - Min(before, m) < m
               THEN took = before
               ELSE took = Min(before, m)
            /\ left = 0 \/ left >= m

\* C3 witness: a call took a part of a segment and left the rest.
C3_Witness ==
    /\ TaskReturned
    /\ ~last_task.whole
    /\ last_task.marks_after >= last_task.min_marks_to_read
    /\ last_task.min_marks_to_read >= 2

\* C4: every slice fillPerThreadInfo bites off a part is the whole
\* remainder of the part, or it holds at least
\* min_marks_for_concurrent_read marks and leaves at least that many.
C4_SlicesNotSmall ==
    last_slice # Null =>
        /\ SumMarks(last_slice.ranges) = last_slice.marks
        /\ \/ last_slice.whole
           \/ /\ last_slice.marks >= min_marks_for_concurrent_read
              /\ parts # <<>>
              /\ Len(parts) = last_slice.part_idx
              /\ SumMarks(Back(parts).ranges) = last_slice.left
              /\ last_slice.left >= min_marks_for_concurrent_read

\* C4 witness: a slice that is not the whole remainder, with a minimum
\* above one mark.
C4_Witness ==
    /\ last_slice # Null
    /\ ~last_slice.whole
    /\ min_marks_for_concurrent_read >= 2

\* C5: every returned task lists its mark ranges left-to-right: no empty
\* range, each range ends where or before the next begins.
C5_TaskLeftToRight ==
    TaskReturned =>
        /\ LeftToRight(last_task.mark_ranges)
        /\ \A i \in 1..Len(last_task.mark_ranges) :
               last_task.mark_ranges[i].begin < last_task.mark_ranges[i].end

\* C5 witness: a whole segment of two ranges is returned after an earlier
\* call had taken a part of it.
C5_Witness ==
    /\ TaskReturned
    /\ threads = 1
    /\ last_task.whole
    /\ Len(last_task.mark_ranges) >= 2
    /\ HandedMarks(last_task.part_idx) \ MarksOf(last_task.mark_ranges) # {}

----------------------------------------------------------------------------
(* Aggregator::execute: properties.                                        *)

\* the aggregation has key columns
Keyed == Len(aggregator.key_columns) > 0

\* the rows of the first n blocks of the stream
RECURSIVE Flatten(_, _)
Flatten(blocks, n) == IF n = 0 THEN <<>> ELSE Flatten(blocks, n - 1) \o blocks[n]

\* the keys of the rows of the first n blocks of the stream
KeysOfPrefix(n) == UNION { {stream[b][i].k : i \in 1..Len(stream[b])} : b \in 1..n }

\* sum(v) and count() over the rows of a sequence whose key is in K
RECURSIVE Tally(_, _)
Tally(rows, K) ==
    IF rows = <<>> THEN [sum |-> 0, count |-> 0]
    ELSE LET t == Tally(Tail(rows), K)
         IN  IF Head(rows).k \in K
             THEN [sum |-> t.sum + Head(rows).v, count |-> t.count + 1]
             ELSE t

\* the number of distinct groups of the first n blocks
GroupCountOfPrefix(n) ==
    IF Keyed THEN Cardinality(KeysOfPrefix(n)) ELSE IF n > 0 THEN 1 ELSE 0

\* the number of groups the result holds
NumGroups ==
    IF result.type \in KeyedTypes THEN Cardinality(DOMAIN result.data)
    ELSE IF result.type = "WITHOUT_KEY" THEN 1 ELSE 0

\* the first block at whose end the group count exceeds the cap; the last
\* block if there is none
CrossingBlock ==
    LET over == {n \in 1..Len(stream) : GroupCountOfPrefix(n) > aggregator.max_rows_to_group_by}
    IN  IF over = {} THEN Len(stream) ELSE CHOOSE n \in over : \A m \in over : n <= m

AnyNoOverflowRow ==
    /\ agg_pc = "done"
    /\ aggregator.group_by_overflow_mode = "ANY"
    /\ aggregator.max_rows_to_group_by > 0
    /\ ~aggregator.overflow_row

\* C7 as stated: with cap N > 0, mode any and no overflow_row the result of
\* execute holds at most N groups; for the scenario input with N = 1 it is
\* the one group of the first-arriving key, the rows of the other key are
\* dropped.
C7_Original ==
    AnyNoOverflowRow =>
        /\ NumGroups <= aggregator.max_rows_to_group_by
        /\ (stream = ScenarioStream /\ Keyed /\ aggregator.max_rows_to_group_by = 1) =>
               /\ DOMAIN result.data = {"a"}
               /\ result.data["a"] = [sum |-> 9, count |-> 3]

\* C7 as amended: the cap is checked at the end of each block only, so the
\* result holds exactly the groups of the keys seen up to and including the
\* first block at whose end the group count exceeds N; for the scenario
\* input (one block) with N = 1 these are both groups, with all their rows.
C7_Amended ==
    AnyNoOverflowRow =>
        /\ Keyed => DOMAIN result.data = KeysOfPrefix(CrossingBlock)
        /\ ~Keyed => NumGroups <= aggregator.max_rows_to_group_by
        /\ (stream = ScenarioStream /\ Keyed /\ aggregator.max_rows_to_group_by = 1) =>
               /\ DOMAIN result.data = {"a", "b"}
               /\ result.data["a"] = [sum |-> 9, count |-> 3]
               /\ result.data["b"] = [sum |-> 6, count |-> 2]

\* C7 witness: execute has returned for the scenario input with N = 1.
C7_Witness ==
    /\ AnyNoOverflowRow
    /\ Keyed
    /\ stream = ScenarioStream
    /\ aggregator.max_rows_to_group_by = 1

\* C8: once no_more_keys is set (only in mode any) it stays set, and a
\* block processed from then on inserts no group: the rows of a present key
\* update that group, the rows of absent keys go to the one overflow state
\* if overflow_row is on and nowhere otherwise.
C8_Step ==
    (agg_pc = "reading" /\ no_more_keys /\ blocks_read' = blocks_read + 1) =>
        LET block == stream[blocks_read + 1]
            present == DOMAIN result.data
            absent == Tally(block, Keys \ present)
        IN  /\ aggregator.group_by_overflow_mode = "ANY"
            /\ no_more_keys'
            /\ DOMAIN result'.data = present
            /\ \A k \in present :
                   LET t == Tally(block, {k})
                   IN  result'.data[k] = [sum |-> result.data[k].sum + t.sum,
                                          count |-> result.data[k].count + t.count]
            /\ IF aggregator.overflow_row
               THEN result'.without_key = [sum |-> result.without_key.sum + absent.sum,
                                           count |-> result.without_key.count + absent.count]
               ELSE result'.without_key = Null

C8_NoNewGroups == [][C8_Step]_vars

\* C8 witness: after no_more_keys was set, a block brought a row of a
\* present key and a row of an absent key, which went to the overflow state.
C8_Witness ==
    /\ agg_pc = "reading"
    /\ no_more_keys
    /\ aggregator.overflow_row
    /\ blocks_read = 2
    /\ result.without_key.count >= 1
    /\ \E k \in DOMAIN result.data : result.data[k].count >= 2

\* C9: in mode throw with a cap, execute goes on or returns only with at
\* most max_rows_to_group_by groups (all groups of the blocks read); when
\* the group count exceeds the cap it throws. Nothing else throws.
C9_ThrowCap ==
    /\ (aggregator.group_by_overflow_mode = "THROW" /\ aggregator.max_rows_to_group_by > 0
            /\ agg_pc \in {"reading", "done"}) =>
           /\ NumGroups <= aggregator.max_rows_to_group_by
           /\ NumGroups = GroupCountOfPrefix(blocks_read)
    /\ agg_pc = "thrown" =>
           /\ aggregator.group_by_overflow_mode = "THROW"
           /\ aggregator.max_rows_to_group_by > 0

\* C9 witness: TOO_MUCH_ROWS was thrown with more groups than the cap.
C9_Witness ==
    /\ agg_pc = "thrown"
    /\ NumGroups > aggregator.max_rows_to_group_by

\* C10: in mode break, execute reads no block after the first one at whose
\* end the group count exceeds the cap, and the result keeps every group
\* (with all rows) of the blocks read, those of the crossing block too.
C10_BreakStops ==
    (aggregator.group_by_overflow_mode = "BREAK" /\ aggregator.max_rows_to_group_by > 0
            /\ agg_pc = "done") =>
        /\ \A n \in 1..Len(stream) :
               GroupCountOfPrefix(n) > aggregator.max_rows_to_group_by => blocks_read <= n
        /\ Keyed =>
               /\ DOMAIN result.data = KeysOfPrefix(blocks_read)
               /\ \A k \in DOMAIN result.data :
                      result.data[k] = Tally(Flatten(stream, blocks_read), {k})
        /\ (~Keyed /\ blocks_read > 0) =>
               result.without_key = Tally(Flatten(stream, blocks_read), Keys)

\* C10 witness: execute returned before the end of the stream, with more
\* groups than the cap.
C10_Witness ==
    /\ agg_pc = "done"
    /\ aggregator.group_by_overflow_mode = "BREAK"
    /\ ~aggregator.overflow_row
    /\ blocks_read < Len(stream)
    /\ NumGroups > aggregator.max_rows_to_group_by

----------------------------------------------------------------------------
(* Aggregator::merge: properties.                                          *)

\* the keys of the rows of source i
SourceKeys(i) ==
    UNION { {sources[i][b][r].k : r \in 1..Len(sources[i][b])} : b \in 1..Len(sources[i]) }

\* C6: with no group cap, merging the results of the independently
\* aggregated sources S1..Sn of a partition of S gives the groups of
\* aggregating S in one pass: the same method, the same keys, the same
\* state of every group (and of the without_key row).
C6_MergeEqualsOnePass ==
    merge_pc = "merged" =>
        LET one_pass == execute(aggregator, stream, 0, EmptyVariants, FALSE).result
            merged == data_variants[res]
        IN  /\ merged.type = one_pass.type
            /\ DOMAIN merged.data = DOMAIN one_pass.data
            /\ \A k \in DOMAIN merged.data : merged.data[k] = one_pass.data[k]
            /\ merged.without_key = one_pass.without_key

\* C6 witness: two sources were merged, with a key of both (states merged)
\* and a key of the second only (states taken over).
C6_Witness ==
    /\ merge_pc = "merged"
    /\ Keyed
    /\ Len(sources) >= 2
    /\ SourceKeys(1) \cap SourceKeys(2) # {}
    /\ SourceKeys(2) \ SourceKeys(1) # {}

----------------------------------------------------------------------------
(* Aggregator: properties of the choice of the method.                     *)

\* the key set is one fixed-length byte-string column
OneFixedStringKey(key_columns) ==
    Len(key_columns) = 1 /\ key_columns[1].class = "ColumnFixedString"

\* the key set is all of fixed width and at most 16 bytes in total
FixedWithin16(key_columns) ==
    /\ \A j \in 1..Len(key_columns) : key_columns[j].isFixed
    /\ SumOfSizes(key_columns) <= 16

\* C11 as stated: the method is the one the selection table assigns to the
\* key set - WITHOUT_KEY for no keys, KEY_64 for one numeric key, KEY_STRING
\* for one variable-length string key, KEY_FIXED_STRING for one fixed-length
\* string key whatever its length, KEYS_128 for the other all-fixed key sets
\* of at most 16 bytes, HASHED otherwise.
C11_Original ==
    (choose # Null /\ choose.type # "EMPTY") =>
        LET kc == choose.key_columns
        IN  choose.type =
                IF Len(kc) = 0 THEN "WITHOUT_KEY"
                ELSE IF Len(kc) = 1 /\ kc[1].isNumeric THEN "KEY_64"
                ELSE IF Len(kc) = 1 /\ kc[1].class = "ColumnString" THEN "KEY_STRING"
                ELSE IF OneFixedStringKey(kc) THEN "KEY_FIXED_STRING"
                ELSE IF FixedWithin16(kc) THEN "KEYS_128"
                ELSE "HASHED"

\* C11 amended: as C11, but one fixed-length string key gets KEY_FIXED_STRING
\* only when it is longer than 16 bytes; a fixed-length string key of at
\* most 16 bytes is an all-fixed key set within 16 bytes and gets KEYS_128.
C11_Amended ==
    (choose # Null /\ choose.type # "EMPTY") =>
        LET kc == choose.key_columns
        IN  /\ Len(kc) = 0 => choose.type = "WITHOUT_KEY"
            /\ (Len(kc) = 1 /\ kc[1].isNumeric) => choose.type = "KEY_64"
            /\ (Len(kc) = 1 /\ kc[1].class = "ColumnString") => choose.type = "KEY_STRING"
            /\ (OneFixedStringKey(kc) /\ kc[1].sizeOfField > 16) => choose.type = "KEY_FIXED_STRING"
            /\ (OneFixedStringKey(kc) /\ kc[1].sizeOfField <= 16) => choose.type = "KEYS_128"
            /\ (Len(kc) > 1 /\ FixedWithin16(kc)) => choose.type = "KEYS_128"
            /\ (Len(kc) > 1 /\ ~FixedWithin16(kc)) => choose.type = "HASHED"
            /\ (Len(kc) = 1 /\ kc[1].class = "ColumnArray") => choose.type = "HASHED"

\* the method was chosen for one fixed-length string key of at most 16 bytes
C11_Witness ==
    /\ choose # Null
    /\ choose.type = "KEYS_128"
    /\ OneFixedStringKey(choose.key_columns)
    /\ choose.key_columns[1].sizeOfField <= 16

----------------------------------------------------------------------------
(* Aggregator: properties of merge over results of different methods.      *)

\* two non-empty results of the list were built with different methods
MethodsDiffer ==
    \E i, j \in 1..Len(data_variants) :
        /\ data_variants[i].type # "EMPTY"
        /\ data_variants[j].type # "EMPTY"
        /\ data_variants[i].type # data_variants[j].type

\* C12: merge over a list of results fails with
\* CANNOT_MERGE_DIFFERENT_AGGREGATED_DATA_VARIANTS exactly when two non-empty
\* results of the list were built with different methods; empty results are
\* skipped and never cause the error.
C12_FailsIffMethodsDiffer ==
    /\ merge_pc = "failed" => MethodsDiffer
    /\ merge_pc = "merged" => ~MethodsDiffer

\* merge failed at the third result of a list whose first result is empty:
\* the empty result was skipped, the second one became res
C12_Witness ==
    /\ merge_pc = "failed"
    /\ Len(data_variants) = 3
    /\ data_variants[1].type = "EMPTY"
    /\ data_variants[2].type # "EMPTY"
    /\ merge_i = 3

----------------------------------------------------------------------------
(* Aggregator: the life cycle of the aggregate states of a result.         *)
(* A state pointer is 0 (nullptr) or the number of a region of the arena;  *)
(* a region records, for every aggregate function, how often its state was *)
(* constructed and destructed there.                                       *)

\* number of aggregate functions of the query
MaxAggregates == 2

\* a region of total_size_of_aggregate_states bytes right after alloc
RawRegion(aggregates_size) == [i \in 1..aggregates_size |-> [created |-> 0, destroyed |-> 0]]

\* a slip: the states constructed before the throwing constructor are left alone
createAggregateStatesAt_NoRollback(aggregates_size, region, throw_at) ==
    [states |-> [i \in 1..aggregates_size |->
                    [created |-> IF throw_at = 0 \/ i < throw_at THEN 1 ELSE 0,
                     destroyed |-> 0]],
     aggregate_data |-> IF throw_at = 0 THEN region ELSE 0,
     thrown |-> throw_at # 0]

\* createAggregateStates(aggregate_data) on the fresh region aggregate_data
\* points to; throw_at = j > 0: create() of the j-th function throws,
\* throw_at = 0: no constructor throws. The region afterwards, the pointer
\* afterwards (it is passed by reference), and whether the call threw.
createAggregateStatesAt(aggregates_size, region, throw_at) ==
    [states |-> [i \in 1..aggregates_size |->
                    [created |-> IF throw_at = 0 \/ i < throw_at THEN 1 ELSE 0,
                     destroyed |-> IF throw_at # 0 /\ i < throw_at THEN 1 ELSE 0]],
     aggregate_data |-> IF throw_at = 0 THEN region ELSE 0,
     thrown |-> throw_at # 0]

\* the failure of one executeOnBlock call: the alloc_no-th allocation of
\* the call is the one that fails (0: none does) - throw_at = 0: alloc
\* itself throws, throw_at = j: the constructor of function j throws
Faults(aggregates_size) ==
    [alloc_no : 0..(MaxBlockRows + 1), throw_at : 0..aggregates_size]

\* "ptr = aggregates_pool->alloc(...); createAggregateStates(ptr)" for the
\* pointer named by slot ("without_key" or a key): the object afterwards.
\* S.allocs counts the allocations of the running call.
NewStates(S, slot, fault) ==
    LET hit == fault.alloc_no = S.allocs + 1
        region == Len(S.arena) + 1
        c == createAggregateStatesAt(S.aggregates_size, region, IF hit THEN fault.throw_at ELSE 0)
        set(T, ptr) == IF slot = "without_key"
                       THEN [T EXCEPT !.without_key = ptr]
                       ELSE [T EXCEPT !.data[slot] = ptr]
    IN  IF hit /\ fault.throw_at = 0
        THEN [S EXCEPT !.allocs = @ + 1, !.pc = "thrown"]
        ELSE [set(S, c.aggregate_data) EXCEPT
                 !.allocs = @ + 1,
                 !.arena = Append(@, c.states),
                 !.last_throw = IF c.thrown
                                THEN [region |-> region, throw_at |-> fault.throw_at, slot |-> slot]
                                ELSE @,
                 !.pc = IF c.thrown THEN "thrown" ELSE @]

\* executeImpl with no_more_keys = false, from row i on: emplace of the key
\* (a new key gets a null pointer), then allocation and construction of the
\* states of a new key
RECURSIVE executeImplStates(_, _, _, _)
executeImplStates(S, block, i, fault) ==
    IF i > Len(block) \/ S.pc = "thrown" THEN S
    ELSE LET key == block[i]
             inserted == key \notin DOMAIN S.data
             emplaced == [S EXCEPT !.data =
                             [x \in (DOMAIN S.data) \cup {key} |->
                                 IF x \in DOMAIN S.data THEN S.data[x] ELSE 0]]
         IN  IF inserted
             THEN executeImplStates(NewStates(emplaced, key, fault), block, i + 1, fault)
             ELSE executeImplStates(S, block, i + 1, fault)

\* executeOnBlock(block, result, ...) with no cap on the groups
executeOnBlockStates(S, block, fault) ==
    LET r0 == [S EXCEPT !.aggregator = TRUE, !.allocs = 0, !.calls = @ + 1]
        r1 == IF r0.type = "EMPTY"
              THEN [r0 EXCEPT !.type = chooseAggregationMethod(S.key_columns)]
              ELSE r0
        r2 == IF r1.overflow_row /\ r1.without_key = 0
              THEN NewStates(r1, "without_key", fault)
              ELSE r1
        r3 == IF r2.pc # "thrown" /\ r2.type = "WITHOUT_KEY" /\ r2.without_key = 0
              THEN NewStates(r2, "without_key", fault)
              ELSE r2
    IN  IF r3.pc # "thrown" /\ r3.type \in KeyedTypes
        THEN executeImplStates(r3, block, 1, fault)
        ELSE r3

\* destroy() of every function on the states at ptr; a null ptr is not
\* tested here
DestroyStates(S, ptr) ==
    IF ptr = 0
    THEN [S EXCEPT !.null_destroyed = @ + S.aggregates_size]
    ELSE [S EXCEPT !.arena[ptr] = [i \in 1..S.aggregates_size |->
                                      [@[i] EXCEPT !.destroyed = @ + 1]]]

\* destroyImpl(method): every group with a non-null pointer, in the order
\* of the table
RECURSIVE destroyImpl(_, _)
destroyImpl(S, keys) ==
    IF keys = {} THEN S
    ELSE LET key == CHOOSE k \in keys : TRUE
             data == S.data[key]
         IN  destroyImpl(IF data # 0 THEN DestroyStates(S, data) ELSE S, keys \ {key})

\* AggregatedDataVariants::size()
sizeOfStates(S) ==
    IF S.type = "EMPTY" THEN 0
    ELSE IF S.type = "WITHOUT_KEY" THEN 1
    ELSE Cardinality(DOMAIN S.data) + (IF S.without_key # 0 THEN 1 ELSE 0)

\* Aggregator::destroyAllAggregateStates(result)
destroyAllAggregateStates(S) ==
    IF sizeOfStates(S) = 0 THEN S
    ELSE LET r1 == IF S.type = "WITHOUT_KEY" \/ S.overflow_row
                   THEN DestroyStates(S, S.without_key)
                   ELSE S
         IN  IF r1.type \in KeyedTypes THEN destroyImpl(r1, DOMAIN r1.data) ELSE r1

\* the blocks of the key column
KeyBlocks == UNION { [1..n -> Keys] : n \in 1..MaxBlockRows }

\* a default-constructed result and the Aggregator it will be filled by
InitStates ==
    /\ \E key_columns \in {<<>>, <<ColumnString>>} :
       \E overflow_row \in BOOLEAN :
       \E aggregates_size \in 1..MaxAggregates :
       \E trivial \in BOOLEAN :
           states = [key_columns |-> key_columns,
                     overflow_row |-> overflow_row,
                     aggregates_size |-> aggregates_size,
                     all_aggregates_has_trivial_destructor |-> trivial,
                     type |-> "EMPTY",
                     aggregator |-> FALSE,
                     data |-> [k \in {} |-> 0],
                     without_key |-> 0,
                     arena |-> <<>>,
                     allocs |-> 0,
                     calls |-> 0,
                     null_destroyed |-> 0,
                     last_throw |-> [region |-> 0, throw_at |-> 0, slot |-> ""],
                     pc |-> "alive"]
    /\ choose = Null /\ distinct = Null /\ tinylog = Null /\ memory = Null
    /\ column = Null /\ views = Null
    /\ MoreIdle
    /\ AggIdle
    /\ PoolIdle

\* one executeOnBlock call; it returns or an allocation or a constructor
\* throws and the exception leaves the call
ExecuteOnBlockStates ==
    /\ states # Null
    /\ states.pc = "alive"
    /\ states.calls < MaxBlocks
    /\ \E block \in KeyBlocks : \E fault \in Faults(states.aggregates_size) :
           states' = executeOnBlockStates(states, block, fault)
    /\ UNCHANGED nonStatesVars

\* ~AggregatedDataVariants()
DestroyVariants ==
    /\ states # Null
    /\ states.pc \in {"alive", "thrown"}
    /\ states' = [(IF states.aggregator /\ ~states.all_aggregates_has_trivial_destructor
                   THEN destroyAllAggregateStates(states)
                   ELSE states) EXCEPT !.pc = "destroyed"]
    /\ UNCHANGED nonStatesVars

NextStates == ExecuteOnBlockStates \/ DestroyVariants

SpecStates == InitStates /\ [][NextStates]_vars

----------------------------------------------------------------------------
(* Aggregator: properties of the life cycle of the states.                 *)

\* the pointer a slot of the result holds
PointerAt(slot) == IF slot = "without_key" THEN states.without_key ELSE states.data[slot]

\* C13: when the constructor of aggregate function j throws while the states
\* of a new group are created, the states of the functions before j are each
\* destructed exactly once (and no other state of the region is touched),
\* the state pointer of the group is null, and the exception leaves the call.
C13_RollbackOnThrow ==
    (states # Null /\ states.last_throw.region # 0) =>
        LET t == states.last_throw
            region == states.arena[t.region]
        IN  /\ \A i \in 1..states.aggregates_size :
                   IF i < t.throw_at
                   THEN region[i].created = 1 /\ region[i].destroyed = 1
                   ELSE region[i].created = 0 /\ region[i].destroyed = 0
            /\ PointerAt(t.slot) = 0
            /\ states.pc \in {"thrown", "destroyed"}

\* the constructor of the second function threw for a new key of a block
C13_Witness ==
    /\ states # Null
    /\ states.pc = "thrown"
    /\ states.last_throw.throw_at = 2
    /\ states.last_throw.slot \in Keys
    /\ Cardinality(DOMAIN states.data) = 2

\* C14: when a result that still owns its states is destroyed (not all
\* functions trivially destructible), every fully constructed group state
\* is destructed exactly once and every group whose state pointer is null is
\* skipped, after any sequence of executeOnBlock calls, the last of which
\* may have been aborted by a constructor or an allocation failure.
C14_DestructorOnce ==
    (/\ states # Null
     /\ states.pc = "destroyed"
     /\ states.aggregator
     /\ ~states.all_aggregates_has_trivial_destructor) =>
        /\ \A r \in 1..Len(states.arena) :
               (\A i \in 1..states.aggregates_size : states.arena[r][i].created = 1)
                   => \A i \in 1..states.aggregates_size : states.arena[r][i].destroyed = 1
        /\ states.null_destroyed = 0

----------------------------------------------------------------------------
(* DistinctBlockInputStream.                                               *)
(* A block is a sequence of rows, a row a sequence of cells (one per       *)
(* column), a cell a string: a sequence of bytes.                          *)

\* largest limit and largest max_rows_in_distinct of a Distinct stream
MaxDistinctCap == 2

\* a read() that found the stream ended may be repeated this often
MaxReadsAfterEnd == 2

\* the strings of the cells: the empty string and the string of one zero byte
CellValues == {<<>>, <<0>>}

\* the rows of a block of two string columns
DistinctRows == [1..2 -> CellValues]

DistinctBlocks == UNION { [1..n -> DistinctRows] : n \in 1..MaxBlockRows }

\* what a well-behaved child delivers before its end
DistinctChildren == UNION { [1..n -> DistinctBlocks] : n \in 0..MaxBlocks }

\* the input of the scenario "Distinct": x = [1,1,2,2,3], y = [p,p,p,q,q]
ScenarioDistinctChild ==
    << << <<(<<1>>), (<<112>>)>>, <<(<<1>>), (<<112>>)>>, <<(<<2>>), (<<112>>)>>,
          <<(<<2>>), (<<113>>)>>, <<(<<3>>), (<<113>>)>> >> >>

\* ColumnString::getDataAtWithTerminatingZero: the bytes of the cell and
\* the zero byte that ends it
getDataAtWithTerminatingZero(cell) == cell \o <<0>>

\* the columns the fingerprint is taken over: all of them when no names
\* are given
SelectedColumns(columns_names, row) ==
    IF columns_names = <<>> THEN [j \in 1..Len(row) |-> j] ELSE columns_names

\* the key of a row: the hash is fed the selected cells one after the
\* other; two rows get the same key exactly when they feed the same bytes
RECURSIVE HashUpdate(_, _, _)
HashUpdate(row, columns, j) ==
    IF j > Len(columns) THEN <<>>
    ELSE getDataAtWithTerminatingZero(row[columns[j]]) \o HashUpdate(row, columns, j + 1)

Fingerprint(row, columns_names) == HashUpdate(row, SelectedColumns(columns_names, row), 1)

\* IColumn::Filter filter(rows): one byte per row, zero
Filter(rows) == [i \in 1..rows |-> FALSE]

\* a slip: the set does not remember the key
InsertIntoSet_NotRemembered(set, key) == [set |-> set, second |-> key \notin set]

\* set.insert(key): the set afterwards and whether the key was new
InsertIntoSet(set, key) == [set |-> set \cup {key}, second |-> key \notin set]

\* a slip: the loop goes on after the limit was reached
RECURSIVE FilterRows_NoBreak(_, _, _, _, _, _)
FilterRows_NoBreak(set, filter, block, i, limit, columns_names) ==
    IF i > Len(block) THEN [set |-> set, filter |-> filter]
    ELSE LET ins == InsertIntoSet(set, Fingerprint(block[i], columns_names))
             filter1 == [filter EXCEPT ![i] = ins.second]
         IN  FilterRows_NoBreak(ins.set, filter1, block, i + 1, limit, columns_names)

\* readImpl: the loop over the rows of a block, from row i on. It stops
\* when the set has reached a non-zero limit.
RECURSIVE FilterRows(_, _, _, _, _, _)
FilterRows(set, filter, block, i, limit, columns_names) ==
    IF i > Len(block) THEN [set |-> set, filter |-> filter]
    ELSE LET ins == InsertIntoSet(set, Fingerprint(block[i], columns_names))
             filter1 == [filter EXCEPT ![i] = ins.second]
         IN  IF limit # 0 /\ Cardinality(ins.set) = limit
             THEN [set |-> ins.set, filter |-> filter1]
             ELSE FilterRows(ins.set, filter1, block, i + 1, limit, columns_names)

\* IColumn::filter on every column of the block: the rows whose filter
\* byte is non-zero, in order
RECURSIVE FilterBlock(_, _, _)
FilterBlock(block, filter, i) ==
    IF i > Len(block) THEN <<>>
    ELSE (IF filter[i] THEN <<block[i]>> ELSE <<>>) \o FilterBlock(block, filter, i + 1)

\* HashSet::getBufferSizeInBytes: 16 bytes for every 128-bit key
getBufferSizeInBytes(set) == 16 * Cardinality(set)

\* a slip: the caps are compared one too high
checkLimits_OffByOne(D) ==
    /\ ~(D.max_rows # 0 /\ Cardinality(D.set) > D.max_rows + 1)
    /\ ~(D.max_bytes # 0 /\ getBufferSizeInBytes(D.set) > D.max_bytes + 16)

\* DistinctBlockInputStream::checkLimits
checkLimits(D) ==
    /\ ~(D.max_rows # 0 /\ Cardinality(D.set) > D.max_rows)
    /\ ~(D.max_bytes # 0 /\ getBufferSizeInBytes(D.set) > D.max_bytes)

\* the stream D after a readImpl call that returned the block out ("empty"
\* rows: an empty block) or threw
Returned(D, out) ==
    [D EXCEPT !.last = IF out = <<>> THEN "empty" ELSE "block",
              !.last_block = out,
              !.emitted = @ \o out]

\* a slip: in mode break the keys of the block that crossed the cap are
\* taken out of the set again
RECURSIVE readImpl_BreakForgetsBlock(_)
readImpl_BreakForgetsBlock(D) ==
    IF D.limit # 0 /\ Cardinality(D.set) >= D.limit THEN Returned(D, <<>>)
    ELSE IF D.child_pos = Len(D.child)
    THEN Returned([D EXCEPT !.child_reads = @ + 1], <<>>)
    ELSE LET block == D.child[D.child_pos + 1]
             f == FilterRows(D.set, Filter(Len(block)), block, 1, D.limit, D.columns_names)
             D1 == [D EXCEPT !.child_pos = @ + 1, !.child_reads = @ + 1, !.set = f.set]
         IN  IF Cardinality(f.set) = Cardinality(D.set) THEN readImpl_BreakForgetsBlock(D1)
             ELSE IF ~checkLimits(D1)
             THEN IF D.overflow_mode = "THROW"
                  THEN [D1 EXCEPT !.last = "throw", !.last_block = <<>>, !.pc = "thrown"]
                  ELSE Returned([D1 EXCEPT !.set = D.set], <<>>)
             ELSE Returned(D1, FilterBlock(block, f.filter, 1))

\* DistinctBlockInputStream::readImpl: the stream after the call
RECURSIVE readImpl(_)
readImpl(D) ==
    IF D.limit # 0 /\ Cardinality(D.set) >= D.limit THEN Returned(D, <<>>)
    ELSE IF D.child_pos = Len(D.child)
    THEN Returned([D EXCEPT !.child_reads = @ + 1], <<>>)
    ELSE LET block == D.child[D.child_pos + 1]
             f == FilterRows(D.set, Filter(Len(block)), block, 1, D.limit, D.columns_names)
             D1 == [D EXCEPT !.child_pos = @ + 1, !.child_reads = @ + 1, !.set = f.set]
         IN  IF Cardinality(f.set) = Cardinality(D.set) THEN readImpl(D1)
             ELSE IF ~checkLimits(D1)
             THEN IF D.overflow_mode = "THROW"
                  THEN [D1 EXCEPT !.last = "throw", !.last_block = <<>>, !.pc = "thrown"]
                  ELSE IF D.overflow_mode = "BREAK"
                  THEN Returned(D1, <<>>)
                  ELSE [D1 EXCEPT !.last = "throw", !.last_block = <<>>, !.pc = "thrown"]
             ELSE Returned(D1, FilterBlock(block, f.filter, 1))

\* a Distinct stream right after its construction
NewDistinct(child, columns_names, limit, max_rows, max_bytes, overflow_mode) ==
    [child |-> child,
     child_pos |-> 0,
     child_reads |-> 0,
     columns_names |-> columns_names,
     limit |-> limit,
     max_rows |-> max_rows,
     max_bytes |-> max_bytes,
     overflow_mode |-> overflow_mode,
     set |-> {},
     emitted |-> <<>>,
     last |-> "none",
     last_block |-> <<>>,
     reads_after_end |-> 0,
     pc |-> "open"]

InitDistinct ==
    /\ \/ \E child \in DistinctChildren :
          \E columns_names \in {<<>>, <<1>>} :
          \E limit \in 0..MaxDistinctCap :
          \E max_rows \in 0..MaxDistinctCap :
          \E max_bytes \in {16 * n : n \in 0..MaxDistinctCap} :
          \E overflow_mode \in {"THROW", "BREAK"} :
              distinct = NewDistinct(child, columns_names, limit, max_rows, max_bytes, overflow_mode)
       \/ distinct = NewDistinct(ScenarioDistinctChild, <<>>, 0, 0, 0, "THROW")
    /\ choose = Null /\ states = Null /\ tinylog = Null /\ memory = Null
    /\ column = Null /\ views = Null
    /\ MoreIdle
    /\ AggIdle
    /\ PoolIdle

\* read() of the Distinct stream
DistinctRead ==
    /\ distinct # Null
    /\ distinct.pc = "open"
    /\ distinct.reads_after_end < MaxReadsAfterEnd
    /\ distinct' = [readImpl(distinct) EXCEPT
                       !.reads_after_end = IF distinct.last = "empty" THEN @ + 1 ELSE @]
    /\ UNCHANGED nonDistinctVars

----------------------------------------------------------------------------
(* TinyLogBlockInputStream: every column file holds the same number of     *)
(* rows; pos is the number of rows already read from the open files.       *)

\* rows in the files of a TinyLog table
MaxFileRows == 4

\* TinyLogBlockInputStream::readImpl: the stream after the call
tinyLogReadImpl(T) ==
    IF T.finished \/ (T.streams_open /\ T.pos = T.rows)
    THEN [T EXCEPT !.finished = TRUE, !.streams_open = FALSE, !.last = "empty", !.last_rows = 0]
    ELSE LET opened == T.columns > 0
             read_rows == IF T.columns > 0 THEN Min(T.block_size, T.rows - T.pos) ELSE 0
             pos1 == T.pos + read_rows
             finished == read_rows = 0 \/ pos1 = T.rows
         IN  [T EXCEPT !.pos = pos1,
                       !.streams_open = opened /\ ~finished,
                       !.finished = finished,
                       !.last = IF read_rows = 0 THEN "empty" ELSE "block",
                       !.last_rows = read_rows]

InitTinyLog ==
    /\ \E rows \in 0..MaxFileRows :
       \E block_size \in 1..MaxBlockRows :
       \E columns \in 0..2 :
           tinylog = [rows |-> rows, block_size |-> block_size, columns |-> columns,
                      pos |-> 0, streams_open |-> FALSE, finished |-> FALSE,
                      last |-> "none", last_rows |-> 0, reads_after_end |-> 0]
    /\ choose = Null /\ states = Null /\ distinct = Null /\ memory = Null
    /\ column = Null /\ views = Null
    /\ MoreIdle
    /\ AggIdle
    /\ PoolIdle

\* read() of the TinyLog stream
TinyLogRead ==
    /\ tinylog # Null
    /\ tinylog.reads_after_end < MaxReadsAfterEnd
    /\ tinylog' = [tinyLogReadImpl(tinylog) EXCEPT
                      !.reads_after_end = IF tinylog.last = "empty" THEN @ + 1 ELSE @]
    /\ UNCHANGED nonTinyLogVars

----------------------------------------------------------------------------
(* StorageMemory and MemoryBlockInputStream. The blocks of the table are   *)
(* numbered in the order they were written; an iterator of the list is the *)
(* number of the block it points to, or 0: the end of the list.            *)

\* blocks written to a memory table after it was created with its first blocks
MaxWrites == 2

\* std::advance(data.begin(), n) in a list of list_size blocks
Advance(n, list_size) == IF n >= list_size THEN 0 ELSE n + 1

\* ++it in the list data
NextIt(it, data) == IF it >= Len(data) THEN 0 ELSE it + 1

\* StorageMemory::read: the streams it returns
storageMemoryRead(data, nthreads) ==
    LET list_size == Len(data)
        n == IF nthreads > list_size THEN list_size ELSE nthreads
    IN  [t \in 1..n |->
            [begin |-> Advance(((t - 1) * list_size) \div n, list_size),
             end |-> Advance((t * list_size) \div n, list_size),
             it |-> Advance(((t - 1) * list_size) \div n, list_size),
             last |-> "none",
             returned |-> <<>>,
             reads_after_end |-> 0]]

\* MemoryBlockInputStream::readImpl: the stream after the call
memoryReadImpl(st, data) ==
    IF st.it = st.end
    THEN [st EXCEPT !.last = "empty"]
    ELSE [st EXCEPT !.last = "block",
                    !.returned = Append(@, data[st.it]),
                    !.it = NextIt(st.it, data)]

InitMemory ==
    /\ \E list_size \in 0..MaxBlocks :
           memory = [data |-> [i \in 1..list_size |-> i], read_called |-> FALSE, streams |-> <<>>,
                     size_at_read |-> 0, writes |-> 0]
    /\ choose = Null /\ states = Null /\ distinct = Null /\ tinylog = Null
    /\ column = Null /\ views = Null
    /\ MoreIdle
    /\ AggIdle
    /\ PoolIdle

\* StorageMemory::read(..., threads)
MemoryRead ==
    /\ memory # Null
    /\ ~memory.read_called
    /\ \E nthreads \in 1..MaxThreads :
           memory' = [memory EXCEPT !.read_called = TRUE,
                                    !.size_at_read = Len(memory.data),
                                    !.streams = storageMemoryRead(memory.data, nthreads)]
    /\ UNCHANGED nonMemoryVars

\* read() of one of the streams
MemoryStreamRead ==
    /\ memory # Null
    /\ \E t \in 1..Len(memory.streams) :
           /\ memory.streams[t].reads_after_end < MaxReadsAfterEnd
           /\ memory' = [memory EXCEPT !.streams[t] =
                  [memoryReadImpl(@, memory.data) EXCEPT
                      !.reads_after_end = IF memory.streams[t].last = "empty" THEN @ + 1 ELSE @]]
    /\ UNCHANGED nonMemoryVars

\* MemoryBlockOutputStream::write(block)
MemoryWrite ==
    /\ memory # Null
    /\ memory.writes < MaxWrites
    /\ memory' = [memory EXCEPT !.data = Append(@, Len(@) + 1), !.writes = @ + 1]
    /\ UNCHANGED nonMemoryVars

----------------------------------------------------------------------------
(* The block input streams together.                                       *)

InitStreams == InitDistinct \/ InitTinyLog \/ InitMemory

NextStreams == DistinctRead \/ TinyLogRead \/ MemoryRead \/ MemoryStreamRead \/ MemoryWrite

SpecStreams == InitStreams /\ [][NextStreams]_vars

----------------------------------------------------------------------------
(* Block input streams: properties.                                        *)

\* the rows the Distinct stream has read from its child
ConsumedRows == Flatten(distinct.child, distinct.child_pos)

\* the rows of a sequence that no earlier row of it shares the fingerprint with
RECURSIVE FirstOccurrences(_, _, _)
FirstOccurrences(rows, n, columns_names) ==
    IF n = 0 THEN <<>>
    ELSE FirstOccurrences(rows, n - 1, columns_names) \o
         (IF \E j \in 1..(n - 1) :
                 Fingerprint(rows[j], columns_names) = Fingerprint(rows[n], columns_names)
          THEN <<>> ELSE <<rows[n]>>)

\* the set of the Distinct stream is beyond max_rows_in_distinct or
\* max_bytes_in_distinct
CapExceeded ==
    \/ distinct.max_rows # 0 /\ Cardinality(distinct.set) > distinct.max_rows
    \/ distinct.max_bytes # 0 /\ 16 * Cardinality(distinct.set) > distinct.max_bytes

\* C15: with no limit and no cap reached, the rows a Distinct stream has
\* emitted are exactly the input rows that no earlier input row, of the
\* same or of a previous block, shares the fingerprint with, in input
\* order; x = [1,1,2,2,3], y = [p,p,p,q,q] yields (1,p),(2,p),(2,q),(3,q).
C15_EmitsFirstOccurrences ==
    (distinct # Null /\ distinct.limit = 0 /\ ~CapExceeded) =>
        /\ distinct.emitted =
               FirstOccurrences(ConsumedRows, Len(ConsumedRows), distinct.columns_names)
        /\ (distinct.child = ScenarioDistinctChild /\ distinct.child_pos = 1) =>
               distinct.emitted = << <<(<<1>>), (<<112>>)>>, <<(<<2>>), (<<112>>)>>,
                                     <<(<<2>>), (<<113>>)>>, <<(<<3>>), (<<113>>)>> >>

\* a second block was emitted without the rows the stream had seen before
C15_Witness ==
    /\ distinct # Null
    /\ distinct.limit = 0
    /\ ~CapExceeded
    /\ distinct.child_pos = 2
    /\ distinct.last = "block"
    /\ Len(distinct.last_block) < Len(distinct.child[2])
    /\ Len(distinct.emitted) > Len(distinct.last_block)

\* C16: when the set has grown beyond the cap, a read in mode throw raises
\* SET_SIZE_LIMIT_EXCEEDED and a read in mode break returns an empty block;
\* the block that crossed the cap is not emitted, so in mode break the rows
\* emitted over the lifetime of the stream never exceed max_rows_in_distinct.
C16_CapEnforced ==
    distinct # Null =>
        /\ CapExceeded =>
               /\ IF distinct.overflow_mode = "THROW"
                  THEN distinct.last = "throw" /\ distinct.pc = "thrown"
                  ELSE distinct.last = "empty"
               /\ distinct.last_block = <<>>
               /\ Len(distinct.emitted) < Cardinality(distinct.set)
        /\ distinct.last = "throw" => CapExceeded
        /\ (distinct.overflow_mode = "BREAK" /\ distinct.max_rows # 0) =>
               Len(distinct.emitted) <= distinct.max_rows

\* in mode break the first block was emitted and the second crossed the cap
C16_Witness ==
    /\ distinct # Null
    /\ distinct.overflow_mode = "BREAK"
    /\ distinct.max_rows = 1
    /\ CapExceeded
    /\ distinct.child_pos = 2
    /\ Len(distinct.emitted) = 1
    /\ distinct.last = "empty"

\* a step on which a stream that has returned an empty block is read again
C20_Step ==
    /\ (distinct # Null /\ distinct.last = "empty" /\ distinct' # distinct) =>
           distinct'.last = "empty"
    /\ (tinylog # Null /\ tinylog.last = "empty" /\ tinylog' # tinylog) =>
           tinylog'.last = "empty"
    /\ memory # Null =>
           \A t \in 1..Len(memory.streams) :
               (memory.streams[t].last = "empty" /\ memory'.streams[t] # memory.streams[t]) =>
                   memory'.streams[t].last = "empty"

\* C20: the end of a stream is absorbing - once read() has returned an empty
\* block, every later read() returns an empty block: for the TinyLog source,
\* for the in-memory source, and for Distinct over a well-behaved child
\* (after the child ended, after the limit was reached, after an overflow in
\* mode break).
C20_EndOfStreamAbsorbing == [][C20_Step]_vars

\* after an overflow in mode break at the first block, a later read took
\* the second block from the child and returned an empty block again
C20_Witness ==
    /\ distinct # Null
    /\ distinct.overflow_mode = "BREAK"
    /\ CapExceeded
    /\ distinct.emitted = <<>>
    /\ distinct.child_pos = 2
    /\ distinct.reads_after_end >= 1
    /\ distinct.last = "empty"

----------------------------------------------------------------------------
(* ColumnVector<T>: filter, getPermutation, permute.                       *)
(* A value is a number or, in a float column, a NaN.                       *)

\* rows of a column
MaxColumnRows == 3

\* the numbers of a column are 0 .. MaxColumnValue
MaxColumnValue == 1

Number(v) == [nan |-> FALSE, v |-> v]

NaN == [nan |-> TRUE, v |-> 0]

\* the values of a column of the type
ColumnValues(type) ==
    {Number(v) : v \in 0..MaxColumnValue} \cup (IF type = "Float64" THEN {NaN} ELSE {})

ColumnTypes == {"UInt64", "Float64"}

ColumnData(type) == UNION { [1..n -> ColumnValues(type)] : n \in 0..MaxColumnRows }

\* CompareHelper<T>::less; FloatCompareHelper<T>::less for the float types
less(type, a, b) ==
    IF type = "Float64"
    THEN IF b.nan THEN ~a.nan ELSE (~a.nan /\ a.v < b.v)
    ELSE a.v < b.v

\* CompareHelper<T>::greater; FloatCompareHelper<T>::greater for the float types
greater(type, a, b) ==
    IF type = "Float64"
    THEN IF b.nan THEN ~a.nan ELSE (~a.nan /\ a.v > b.v)
    ELSE a.v > b.v

\* a slip: the filter is applied without the test of its size
filter_NoSizeCheck(data, filt) ==
    [thrown |-> "",
     res |-> LET RECURSIVE f(_)
                 f(i) == IF i > Len(data) THEN <<>>
                         ELSE (IF i <= Len(filt) /\ filt[i] # 0 THEN <<data[i]>> ELSE <<>>) \o f(i + 1)
             IN  f(1)]

\* ColumnVector::filter(filt): the exception or the column it returns
filter(data, filt) ==
    IF Len(data) # Len(filt)
    THEN [thrown |-> "SIZES_OF_COLUMNS_DOESNT_MATCH", res |-> <<>>]
    ELSE [thrown |-> "",
          res |-> LET RECURSIVE f(_)
                      f(i) == IF i > Len(data) THEN <<>>
                              ELSE (IF filt[i] # 0 THEN <<data[i]>> ELSE <<>>) \o f(i + 1)
                  IN  f(1)]

\* the permutations of 0 .. s-1, as sequences
IndexPermutations(s) ==
    {p \in [1..s -> 0..(s - 1)] : \A i, j \in 1..s : i # j => p[i] # p[j]}

\* the comparator object handed to the sort: less(*this) or greater(*this)
comp(type, reverse, a, b) ==
    IF reverse THEN greater(type, a, b) ELSE less(type, a, b)

\* the comparator is a strict weak ordering of the values of data
StrictWeakOrdering(type, data, reverse) ==
    LET V == {data[i] : i \in 1..Len(data)}
        equiv(a, b) == ~comp(type, reverse, a, b) /\ ~comp(type, reverse, b, a)
    IN  /\ \A a \in V : ~comp(type, reverse, a, a)
        /\ \A a, b, c \in V :
               (comp(type, reverse, a, b) /\ comp(type, reverse, b, c)) => comp(type, reverse, a, c)
        /\ \A a, b, c \in V : (equiv(a, b) /\ equiv(b, c)) => equiv(a, c)

\* std::sort(first, last, comp) and, for 0 < limit, std::partial_sort(first,
\* first + limit, last, comp) on the identity permutation: the outcomes the
\* library allows - the first limit places hold, in order, limit smallest
\* elements; with a comparator that is no strict weak ordering the
\* behaviour is undefined, any permutation can come out
SortOutcomes(type, data, limit, reverse) ==
    LET s == Len(data)
        n == IF limit = 0 THEN s ELSE limit
    IN  IF ~StrictWeakOrdering(type, data, reverse) THEN IndexPermutations(s)
        ELSE {p \in IndexPermutations(s) :
                 /\ \A i, j \in 1..n :
                        i < j => ~comp(type, reverse, data[p[j] + 1], data[p[i] + 1])
                 /\ \A i \in 1..n : \A j \in (n + 1)..s :
                        ~comp(type, reverse, data[p[j] + 1], data[p[i] + 1])}

\* a slip: the reverse flag is not looked at
getPermutation_ReverseIgnored(type, data, reverse, limit) ==
    LET s == Len(data)
        limit1 == IF limit > s THEN 0 ELSE limit
    IN  SortOutcomes(type, data, limit1, FALSE)

\* ColumnVectorBase::getPermutation(reverse, limit): the permutations it
\* can return
getPermutation(type, data, reverse, limit) ==
    LET s == Len(data)
        limit1 == IF limit > s THEN 0 ELSE limit
    IN  IF reverse
        THEN SortOutcomes(type, data, limit1, TRUE)
        ELSE SortOutcomes(type, data, limit1, FALSE)

\* ColumnVector::permute(perm, limit): the exception or the column it returns
permute(data, perm, limit) ==
    LET s == Len(data)
        limit1 == IF limit = 0 THEN s ELSE Min(s, limit)
    IN  IF Len(perm) < limit1
        THEN [thrown |-> "SIZES_OF_COLUMNS_DOESNT_MATCH", res |-> <<>>]
        ELSE [thrown |-> "", res |-> [i \in 1..limit1 |-> data[perm[i] + 1]]]

\* the filters: one byte per row of some block
Masks == UNION { [1..n -> 0..2] : n \in 0..MaxColumnRows }

InitColumn ==
    /\ \E type \in ColumnTypes : \E data \in ColumnData(type) :
           column = [type |-> type, data |-> data, call |-> "none", filt |-> <<>>,
                     reverse |-> FALSE, limit |-> 0, perm |-> <<>>,
                     thrown |-> "", res |-> <<>>]
    /\ choose = Null /\ states = Null /\ distinct = Null /\ tinylog = Null
    /\ memory = Null /\ views = Null
    /\ MoreIdle
    /\ AggIdle
    /\ PoolIdle

\* column.filter(filt)
ColumnFilter ==
    /\ column # Null
    /\ column.call = "none"
    /\ \E filt \in Masks :
           LET o == filter(column.data, filt)
           IN  column' = [column EXCEPT !.call = "filter", !.filt = filt,
                                        !.thrown = o.thrown, !.res = o.res]
    /\ UNCHANGED nonColumnVars

\* column.getPermutation(reverse, limit)
ColumnGetPermutation ==
    /\ column # Null
    /\ column.call = "none"
    /\ \E reverse \in BOOLEAN : \E limit \in 0..(MaxColumnRows + 1) :
       \E perm \in getPermutation(column.type, column.data, reverse, limit) :
           column' = [column EXCEPT !.call = "getPermutation", !.reverse = reverse,
                                    !.limit = limit, !.perm = perm]
    /\ UNCHANGED nonColumnVars

\* column.permute(perm, limit) with the permutation and the limit of the sort
ColumnPermute ==
    /\ column # Null
    /\ column.call = "getPermutation"
    /\ LET o == permute(column.data, column.perm, column.limit)
       IN  column' = [column EXCEPT !.call = "permute", !.thrown = o.thrown, !.res = o.res]
    /\ UNCHANGED nonColumnVars

NextColumn == ColumnFilter \/ ColumnGetPermutation \/ ColumnPermute

SpecColumn == InitColumn /\ [][NextColumn]_vars

----------------------------------------------------------------------------
(* ColumnVector: properties.                                               *)

\* the k-th row, in order, whose byte in the mask is non-zero
KthKept(filt, k) ==
    CHOOSE i \in 1..Len(filt) :
        filt[i] # 0 /\ Cardinality({j \in 1..i : filt[j] # 0}) = k

\* C17: filtering a column with a mask whose length differs from the row
\* count fails with SIZES_OF_COLUMNS_DOESNT_MATCH and produces no column;
\* with a mask of the right length the output is exactly the subsequence of
\* the rows whose mask byte is non-zero, in order.
C17_Filter ==
    (column # Null /\ column.call = "filter") =>
        IF Len(column.filt) # Len(column.data)
        THEN column.thrown = "SIZES_OF_COLUMNS_DOESNT_MATCH" /\ column.res = <<>>
        ELSE /\ column.thrown = ""
             /\ Len(column.res) = Cardinality({j \in 1..Len(column.filt) : column.filt[j] # 0})
             /\ \A k \in 1..Len(column.res) : column.res[k] = column.data[KthKept(column.filt, k)]

\* a mask of the right length that drops a row between two rows it keeps
C17_Witness ==
    /\ column # Null
    /\ column.call = "filter"
    /\ Len(column.data) = 3
    /\ column.filt = <<2, 0, 1>>
    /\ column.res = <<column.data[1], column.data[3]>>
    /\ column.data[1] # column.data[3]

\* C18: for limit = 0 or limit greater than the column size, getPermutation
\* returns a permutation of 0 .. size-1, every index exactly once, and
\* permute with it yields a column that is non-decreasing - non-increasing
\* when reverse is set - under the comparator of the column.
C18_SortRoundTrip ==
    (/\ column # Null
     /\ column.call \in {"getPermutation", "permute"}
     /\ (column.limit = 0 \/ column.limit > Len(column.data))) =>
        LET s == Len(column.data)
        IN  /\ Len(column.perm) = s
            /\ \A x \in 0..(s - 1) : Cardinality({i \in 1..s : column.perm[i] = x}) = 1
            /\ column.call = "permute" =>
                   /\ column.thrown = ""
                   /\ Len(column.res) = s
                   /\ \A i \in 1..(s - 1) :
                          IF column.reverse
                          THEN ~greater(column.type, column.res[i + 1], column.res[i])
                          ELSE ~less(column.type, column.res[i + 1], column.res[i])

\* a float column with a NaN that is not its last value was sorted in
\* reverse order and permuted: the order of the rows changed
C18_Witness ==
    /\ column # Null
    /\ column.call = "permute"
    /\ column.type = "Float64"
    /\ column.reverse
    /\ column.limit = 0
    /\ Len(column.data) = 3
    /\ column.data[1] = NaN
    /\ column.res # column.data

----------------------------------------------------------------------------
(* PushingToViewsBlockOutputStream: a table, the views that depend on it   *)
(* and the views that depend on those.                                     *)

\* write calls on one stream
MaxPushes == 2

\* the largest value of a row of an incoming block
MaxRowValue == 2

BaseTable == "t"

ViewNames == {"v1", "v2", "v3"}

TableNames == {BaseTable} \cup ViewNames

\* context.getDependencies for every table: the base table has any of v1, v2
\* in any order, v1 may have v3
DependencyMaps ==
    {[tbl \in TableNames |-> IF tbl = BaseTable THEN d ELSE IF tbl = "v1" THEN e ELSE <<>>] :
        d \in {<<>>, <<"v1">>, <<"v2">>, <<"v1", "v2">>, <<"v2", "v1">>},
        e \in {<<>>, <<"v3">>}}

\* storage->getName() of a view
ViewKinds == {"View", "MaterializedView"}

\* the inner queries: every row, or the rows greater than 1
InnerQueries == {"all", "gt1"}

\* the blocks written to the stream, as their rows
PushedBlocks ==
    {<<v>> : v \in 1..MaxRowValue}
        \cup {<<v, w>> : v \in 1..MaxRowValue, w \in 2..MaxRowValue}

\* InterpreterSelectQuery(query, from = OneBlockInputStream(block)).execute(),
\* materialized: the rows of the result
select(query, block) ==
    LET RECURSIVE f(_)
        f(i) == IF i > Len(block) THEN <<>>
                ELSE (IF query = "all" \/ block[i] > 1 THEN <<block[i]>> ELSE <<>>) \o f(i + 1)
    IN  f(1)

\* the operation that throws during a write call, if any
ViewFaults ==
    {[op |-> "none", table |-> BaseTable]}
        \cup {[op |-> "select", table |-> v] : v \in ViewNames}
        \cup {[op |-> "write", table |-> tbl] : tbl \in TableNames}

Effect(op, tbl, block) == [op |-> op, table |-> tbl, block |-> block]

\* output->write(block) of the stream of table tbl: the storage is written
\* unless the write throws
outputWrite(tbl, block, fault) ==
    IF fault = [op |-> "write", table |-> tbl]
    THEN [log |-> <<>>, thrown |-> TRUE]
    ELSE [log |-> <<Effect("write", tbl, block)>>, thrown |-> FALSE]

RECURSIVE write_OutputFirst(_, _, _, _)
\* a slip: the storage of the table is written before the dependents
write_OutputFirst(S, tbl, block, fault) ==
    LET children == S.deps[tbl]
        own == IF S.kind[tbl] # "View" THEN outputWrite(tbl, block, fault)
               ELSE [log |-> <<>>, thrown |-> FALSE]
        RECURSIVE loop(_)
        loop(i) ==
            IF i > Len(children) THEN [log |-> <<>>, thrown |-> FALSE]
            ELSE IF fault = [op |-> "select", table |-> children[i]]
            THEN [log |-> <<>>, thrown |-> TRUE]
            ELSE LET data == select(S.query[children[i]], block)
                     sel == <<Effect("select", children[i], block)>>
                     copied == IF data = <<>> THEN [log |-> <<>>, thrown |-> FALSE]
                               ELSE write_OutputFirst(S, children[i], data, fault)
                 IN  IF copied.thrown
                     THEN [log |-> sel \o copied.log, thrown |-> TRUE]
                     ELSE LET rest == loop(i + 1)
                          IN  [log |-> sel \o copied.log \o rest.log, thrown |-> rest.thrown]
        pushed == loop(1)
    IN  IF own.thrown THEN own
        ELSE [log |-> own.log \o pushed.log, thrown |-> pushed.thrown]

RECURSIVE write(_, _, _, _)
\* PushingToViewsBlockOutputStream::write(block) of the stream of table tbl:
\* the side effects in their order, and whether an exception left the call.
\* copyData(data, children[i]) writes every non-empty block of the result to
\* the stream of the view.
write(S, tbl, block, fault) ==
    LET children == S.deps[tbl]
        RECURSIVE loop(_)
        loop(i) ==
            IF i > Len(children) THEN [log |-> <<>>, thrown |-> FALSE]
            ELSE IF fault = [op |-> "select", table |-> children[i]]
            THEN [log |-> <<>>, thrown |-> TRUE]
            ELSE LET data == select(S.query[children[i]], block)
                     sel == <<Effect("select", children[i], block)>>
                     copied == IF data = <<>> THEN [log |-> <<>>, thrown |-> FALSE]
                               ELSE write(S, children[i], data, fault)
                 IN  IF copied.thrown
                     THEN [log |-> sel \o copied.log, thrown |-> TRUE]
                     ELSE LET rest == loop(i + 1)
                          IN  [log |-> sel \o copied.log \o rest.log, thrown |-> rest.thrown]
        pushed == loop(1)
    IN  IF pushed.thrown THEN pushed
        ELSE IF S.kind[tbl] # "View"
        THEN LET own == outputWrite(tbl, block, fault)
             IN  [log |-> pushed.log \o own.log, thrown |-> own.thrown]
        ELSE pushed

\* PushingToViewsBlockOutputStream(database, table, context, query_ptr) for
\* the base table: the streams of the dependents, their queries, the outputs
InitViews ==
    /\ \E deps \in DependencyMaps :
       \E kind \in [ViewNames -> ViewKinds] :
       \E query \in [ViewNames -> InnerQueries] :
           views = [deps |-> deps,
                    kind |-> [tbl \in TableNames |-> IF tbl = BaseTable THEN "Log" ELSE kind[tbl]],
                    query |-> query,
                    block |-> <<>>, fault |-> [op |-> "none", table |-> BaseTable],
                    log |-> <<>>, thrown |-> FALSE, pushes |-> 0]
    /\ choose = Null /\ states = Null /\ distinct = Null /\ tinylog = Null
    /\ memory = Null /\ column = Null
    /\ MoreIdle
    /\ AggIdle
    /\ PoolIdle

\* stream.write(block): log holds the side effects of this call
ViewsWrite ==
    /\ views # Null
    /\ ~views.thrown
    /\ views.pushes < MaxPushes
    /\ \E block \in PushedBlocks : \E fault \in ViewFaults :
           LET o == write(views, BaseTable, block, fault)
           IN  views' = [views EXCEPT !.block = block, !.fault = fault, !.log = o.log,
                                      !.thrown = o.thrown, !.pushes = @ + 1]
    /\ UNCHANGED nonViewsVars

NextViews == ViewsWrite

SpecViews == InitViews /\ [][NextViews]_vars

----------------------------------------------------------------------------
(* PushingToViews: properties.                                             *)

RECURSIVE Subtree(_, _)
\* a view and everything that depends on it
Subtree(deps, v) ==
    {v} \cup UNION {Subtree(deps, deps[v][i]) : i \in 1..Len(deps[v])}

\* the positions in the log of the side effects on some of the tables
EffectsOn(tables) == {p \in 1..Len(views.log) : views.log[p].table \in tables}

\* the positions in the log of the write to the base storage
BaseWrites == {p \in 1..Len(views.log) : views.log[p] = Effect("write", BaseTable, views.block)}

\* the push to the i-th dependent happened: its query ran over the incoming
\* block and a non-empty result reached the stream of the view, which wrote
\* it to the storage of a materialized view
PushCompleted(i) ==
    LET v == views.deps[BaseTable][i]
        selected == select(views.query[v], views.block)
    IN  \E p \in 1..Len(views.log) :
            /\ views.log[p] = Effect("select", v, views.block)
            /\ (selected # <<>> /\ views.kind[v] # "View") =>
                   \E q \in (p + 1)..Len(views.log) : views.log[q] = Effect("write", v, selected)

\* C19: PushingToViews.write(block): for every dependent view, in order, the
\* SELECT of the view is run over the incoming block and its result is
\* pushed to the output of the view before the block is written to the base
\* storage; the write to the base storage happens last, and only if every
\* push to a dependent completed without throwing.
C19_DependentsFirst ==
    (views # Null /\ views.pushes > 0) =>
        LET d == views.deps[BaseTable]
        IN  /\ \A i, j \in 1..Len(d) : i < j =>
                   \A p \in EffectsOn(Subtree(views.deps, d[i])) :
                   \A q \in EffectsOn(Subtree(views.deps, d[j])) : p < q
            /\ \A w \in BaseWrites :
                   /\ w = Len(views.log)
                   /\ ~views.thrown
                   /\ \A i \in 1..Len(d) : PushCompleted(i)
            /\ ~views.thrown => Cardinality(BaseWrites) = 1
            /\ (views.thrown /\ views.fault # [op |-> "write", table |-> BaseTable]) =>
                   BaseWrites = {}

\* two dependents, the first with a dependent of its own, all written, then
\* the base storage
C19_Witness ==
    /\ views # Null
    /\ views.pushes > 0
    /\ ~views.thrown
    /\ views.deps[BaseTable] = <<"v1", "v2">>
    /\ Len(views.log) = 7
    /\ views.log[2].table = "v3"
    /\ views.log[4] = Effect("write", "v1", views.block)
    /\ views.log[6].table = "v2"
    /\ views.log[7] = Effect("write", BaseTable, views.block)

----------------------------------------------------------------------------
(* MergeTreeData: the working set of parts, all parts, the directories,    *)
(* a Transaction, the readers; ReplicatedMergeTreeBlockOutputStream with   *)
(* the nodes it creates in ZooKeeper.                                       *)

\* block numbers handed out by the increment or by ZooKeeper
MaxPartNumber == 3

\* seconds the clock advances after the table was attached
MaxTicks == 2

\* settings.old_parts_lifetime, in seconds of the clock of the model
OldPartsLifetime == 1

\* time(0) when the table is attached: later than one lifetime after 0
StartTime == OldPartsLifetime + 1

\* the checksums of the data of the inserted blocks
BlockSums == {1, 2}

\* insert_id of an INSERT: empty or given
InsertIds == {"", "a"}

\* the rows of a part made of one block: how often each block is in it
OneBlock(sum) == [x \in BlockSums |-> IF x = sum THEN 1 ELSE 0]

\* a part: its range of block numbers and its level
PartOf(left, right, level) == [left |-> left, right |-> right, level |-> level]

\* ActiveDataPartSet::Part::contains
contains(a, b) == a.left <= b.left /\ b.right <= a.right

\* Transaction::Transaction()
NoTransaction == [data |-> FALSE, removed_parts |-> {}, added_parts |-> {}]

\* Transaction::commit()
commit(transaction) == [data |-> FALSE, removed_parts |-> {}, added_parts |-> {}]

\* the directory of a part: tmp_<name> while it is written, <name> afterwards
Dir(tmp, part) == [tmp |-> tmp, part |-> part]

\* MergeTreeData::replaceParts(remove, add, clear_without_timeout)
replaceParts(M, remove, add, clear_without_timeout) ==
    [M EXCEPT !.remove_time = [p \in DOMAIN @ |->
                                  IF p \in remove
                                  THEN (IF clear_without_timeout THEN 0 ELSE M.now)
                                  ELSE @[p]],
              !.data_parts = (@ \ remove) \cup add,
              !.left_at = [p \in DOMAIN @ |-> IF p \in remove /\ p \in M.data_parts THEN M.now ELSE @[p]]]

\* a slip: the destructor leaves the tentative change in place
destroyTransaction_NoUndo(M) == [M EXCEPT !.transaction = NoTransaction]

\* Transaction::~Transaction()
destroyTransaction(M) ==
    LET t == M.transaction
    IN  IF t.data /\ (t.removed_parts # {} \/ t.added_parts # {})
        THEN [replaceParts(M, t.removed_parts, t.added_parts, TRUE) EXCEPT !.transaction = NoTransaction]
        ELSE [M EXCEPT !.transaction = NoTransaction]

\* a slip: the parts the new part covers stay in the working set
renameTempPartAndReplace_KeepsCovered(M, part, sum, out_transaction) ==
    [M EXCEPT !.data_parts = @ \cup {part},
              !.all_data_parts = @ \cup {part},
              !.remove_time = [p \in M.all_data_parts \cup {part} |->
                                  IF p \in M.all_data_parts THEN @[p] ELSE 0],
              !.left_at = [p \in M.all_data_parts \cup {part} |->
                              IF p \in M.all_data_parts THEN @[p] ELSE 0],
              !.content = [p \in M.all_data_parts \cup {part} |->
                              IF p \in M.all_data_parts THEN @[p] ELSE sum],
              !.dirs = (@ \ {Dir(TRUE, part)}) \cup {Dir(FALSE, part)},
              !.transaction = IF out_transaction
                              THEN [data |-> TRUE, removed_parts |-> {part}, added_parts |-> {}]
                              ELSE @]

\* MergeTreeData::renameTempPartAndReplace(part, increment, out_transaction),
\* the part already carrying its number: the directory is renamed, the parts
\* the new part covers leave the working set, the new part enters it unless
\* a part of the working set covers it
renameTempPartAndReplace(M, part, sum, out_transaction) ==
    LET covered == {p \in M.data_parts : contains(part, p)}
        obsolete == \E p \in M.data_parts \ covered : contains(p, part)
        all == M.all_data_parts \cup {part}
    IN  [M EXCEPT !.data_parts = (@ \ covered) \cup (IF obsolete THEN {} ELSE {part}),
                  !.all_data_parts = all,
                  !.remove_time = [p \in all |->
                                      IF p \in covered \/ (p = part /\ obsolete) THEN M.now
                                      ELSE IF p \in M.all_data_parts THEN @[p] ELSE 0],
                  !.left_at = [p \in all |->
                                  IF p \in covered THEN M.now
                                  ELSE IF p \in M.all_data_parts THEN @[p] ELSE 0],
                  !.content = [p \in all |-> IF p \in M.all_data_parts THEN @[p] ELSE sum],
                  !.dirs = (@ \ {Dir(TRUE, part)}) \cup {Dir(FALSE, part)},
                  !.transaction = IF out_transaction
                                  THEN [data |-> TRUE, removed_parts |-> {part}, added_parts |-> covered]
                                  ELSE @]

\* MergeTreeData::renameTempPartAndAdd(part, increment, out_transaction)
renameTempPartAndAdd(M, part, sum, out_transaction) ==
    renameTempPartAndReplace(M, part, sum, out_transaction)

\* shared_ptr::use_count() of a part of all_data_parts: all_data_parts, the
\* working set, the readers, the vectors of the Transaction, the writer
use_count(M, p) ==
    1 + (IF p \in M.data_parts THEN 1 ELSE 0)
      + (IF p \in M.reader THEN 1 ELSE 0)
      + (IF p \in M.transaction.removed_parts \cup M.transaction.added_parts THEN 1 ELSE 0)
      + (IF M.writer.pc \in {"added", "exit"} /\ M.writer.part = p THEN 1 ELSE 0)

\* a slip: the references of the readers are not looked at
Removable_IgnoresReaders(M, p) ==
    /\ p \notin M.data_parts
    /\ M.remove_time[p] < M.now
    /\ M.now - M.remove_time[p] > OldPartsLifetime

\* the condition of clearOldParts on one part
Removable(M, p) ==
    /\ use_count(M, p) = 1
    /\ M.remove_time[p] < M.now
    /\ M.now - M.remove_time[p] > OldPartsLifetime

\* MergeTreeData::clearOldParts(): DataPart::remove() and erase for every
\* part that is not used and old enough
clearOldParts(M) ==
    LET old == {p \in M.all_data_parts : Removable(M, p)}
        all == M.all_data_parts \ old
    IN  [M EXCEPT !.all_data_parts = all,
                  !.remove_time = [p \in all |-> @[p]],
                  !.left_at = [p \in all |-> @[p]],
                  !.content = [p \in all |-> @[p]],
                  !.dirs = @ \ {Dir(FALSE, p) : p \in old}]

\* the writer of the table, between two blocks
IdleWriter ==
    [pc |-> "idle", part |-> PartOf(0, 0, 0), sum |-> 0, block_id |-> [insert_id |-> "", sum |-> 0],
     code |-> "", get |-> "", thrown |-> "", committed |-> FALSE, enqueued |-> FALSE,
     failed |-> FALSE]

\* MergeTreeData(...) of an empty table, plain or replicated
InitMergeTree ==
    /\ \E replicated \in BOOLEAN :
           mergetree = [replicated |-> replicated,
                        data_parts |-> {}, all_data_parts |-> {},
                        remove_time |-> <<>>, left_at |-> <<>>, content |-> <<>>,
                        dirs |-> {}, now |-> StartTime, increment |-> 0,
                        reader |-> {}, transaction |-> NoTransaction,
                        writer |-> IdleWriter,
                        blocks |-> {}, log |-> {}, check_queue |-> {}]
    /\ OldRestIdle
    /\ native = Null /\ profiling = Null /\ chunkmerger = Null /\ datapart = Null
    /\ AggIdle
    /\ PoolIdle

\* MergeTreeBlockOutputStream::write of a one-part block: the temporary part
\* is written, the number is taken from the increment and the part is added
\* under the lock of the working set
Insert ==
    /\ mergetree # Null
    /\ ~mergetree.replicated
    /\ mergetree.increment < MaxPartNumber
    /\ \E sum \in BlockSums :
           LET number == mergetree.increment + 1
               part == PartOf(number, number, 0)
               M == [mergetree EXCEPT !.increment = number, !.dirs = @ \cup {Dir(TRUE, part)}]
           IN  mergetree' = renameTempPartAndAdd(M, part, OneBlock(sum), FALSE)
    /\ UNCHANGED nonMergeTreeVars


\* the parts of the working set from the least to the greatest of parts,
\* with nothing of the working set between them
Adjacent(M, what) ==
    \A p \in M.data_parts \ what :
        \/ \A q \in what : p.right < q.left
        \/ \A q \in what : p.left > q.right

\* can_merge of selectPartsToMerge: no part is held by a Transaction, and no
\* block number that was handed out and not yet added lies between the parts
can_merge(M, what) ==
    /\ what \cap (M.transaction.removed_parts \cup M.transaction.added_parts) = {}
    /\ M.writer.pc = "written" =>
           \/ \A q \in what : M.writer.part.left < q.left
           \/ \A q \in what : M.writer.part.left > q.right

\* the name the merger gives to the merged part
MergedPart(what) ==
    PartOf(CHOOSE l \in {q.left : q \in what} : \A q \in what : l <= q.left,
           CHOOSE r \in {q.right : q \in what} : \A q \in what : r >= q.right,
           1 + CHOOSE v \in {q.level : q \in what} : \A q \in what : v >= q.level)

RECURSIVE SumContent(_, _)
\* the rows of the parts together
SumContent(M, what) ==
    IF what = {} THEN [x \in BlockSums |-> 0]
    ELSE LET p == CHOOSE q \in what : TRUE
             rest == SumContent(M, what \ {p})
         IN  [x \in BlockSums |-> M.content[p][x] + rest[x]]

\* MergeTreeDataMerger::mergeParts(parts, merged_name): the merged part is
\* written to a temporary directory and installed
Merge ==
    /\ mergetree # Null
    /\ \E what \in SUBSET mergetree.data_parts :
           /\ Cardinality(what) >= 2
           /\ Adjacent(mergetree, what)
           /\ can_merge(mergetree, what)
           /\ LET into == MergedPart(what)
                  M == [mergetree EXCEPT !.dirs = @ \cup {Dir(TRUE, into)}]
              IN  mergetree' = renameTempPartAndReplace(M, into, SumContent(mergetree, what), FALSE)
    /\ UNCHANGED nonMergeTreeVars

\* a query takes getDataParts(): a copy of the working set
ReaderAcquire ==
    /\ mergetree # Null
    /\ mergetree.reader = {}
    /\ mergetree.data_parts # {}
    /\ mergetree' = [mergetree EXCEPT !.reader = mergetree.data_parts]
    /\ UNCHANGED nonMergeTreeVars

\* the query is over
ReaderRelease ==
    /\ mergetree # Null
    /\ mergetree.reader # {}
    /\ mergetree' = [mergetree EXCEPT !.reader = {}]
    /\ UNCHANGED nonMergeTreeVars

\* a second passes
Tick ==
    /\ mergetree # Null
    /\ mergetree.now < StartTime + MaxTicks
    /\ mergetree' = [mergetree EXCEPT !.now = @ + 1]
    /\ UNCHANGED nonMergeTreeVars

\* MergeTreeData::clearOldParts() from the background thread
ClearOldParts ==
    /\ mergetree # Null
    /\ mergetree' = clearOldParts(mergetree)
    /\ mergetree' # mergetree
    /\ UNCHANGED nonMergeTreeVars

\* block_id of write: insert_id__index, or the checksum of the data
BlockId(insert_id, sum) ==
    IF insert_id = "" THEN [insert_id |-> "", sum |-> sum] ELSE [insert_id |-> insert_id, sum |-> 0]

\* ReplicatedMergeTreeBlockOutputStream::write of a one-part block, up to
\* the call of renameTempPartAndAdd: the block number is allocated, the
\* temporary part is written, the operations for ZooKeeper are collected
WriteTempPart ==
    /\ mergetree # Null
    /\ mergetree.replicated
    /\ mergetree.writer.pc = "idle"
    /\ mergetree.increment < MaxPartNumber
    /\ \E sum \in BlockSums : \E insert_id \in InsertIds :
           LET number == mergetree.increment + 1
               part == PartOf(number, number, 0)
           IN  mergetree' = [mergetree EXCEPT
                                !.increment = number,
                                !.dirs = @ \cup {Dir(TRUE, part)},
                                !.writer = [IdleWriter EXCEPT !.pc = "written", !.part = part,
                                                              !.sum = sum,
                                                              !.block_id = BlockId(insert_id, sum)]]
    /\ UNCHANGED nonMergeTreeVars

\* write, the lines that declare the Transaction and call
\* renameTempPartAndAdd(part, nullptr, &transaction); the rename may fail
\* before anything is captured
WriteAdd ==
    /\ mergetree # Null
    /\ mergetree.writer.pc = "written"
    /\ \E failed \in BOOLEAN :
           LET w == mergetree.writer
           IN  IF failed
               THEN mergetree' = [mergetree EXCEPT !.writer.pc = "exit",
                                                   !.writer.failed = TRUE,
                                                   !.writer.thrown = "Poco::Exception"]
               ELSE mergetree' = [renameTempPartAndAdd(mergetree, w.part, OneBlock(w.sum), TRUE) EXCEPT
                                      !.writer.pc = "added"]
    /\ UNCHANGED nonMergeTreeVars

\* a block with this id is registered in ZooKeeper
Registered(M, block_id) == \E b \in M.blocks : b.block_id = block_id

\* a slip: the checksums of the new part are taken for the stored ones
StoredChecksums_OfNewPart(M, block_id) == M.writer.sum

\* the checksums stored with the block id
StoredChecksums(M, block_id) == (CHOOSE b \in M.blocks : b.block_id = block_id).sum

\* what zookeeper->tryMulti(ops) and, after ZNODEEXISTS, zookeeper->tryGet can
\* answer: a code, or a KeeperException with a code; when the connection is
\* lost the operations may have been applied or not
ZooKeeperAnswers(M) ==
    LET reg == Registered(M, M.writer.block_id)
    IN  (IF reg THEN {} ELSE {[multi |-> "ZOK", exception |-> FALSE, applied |-> TRUE, get |-> ""]})
        \cup {[multi |-> "ZNODEEXISTS", exception |-> FALSE, applied |-> FALSE, get |-> g] :
                 g \in (IF reg THEN {"true"} ELSE {"false"}) \cup {"ZCONNECTIONLOSS", "ZSESSIONEXPIRED"}}
        \cup {[multi |-> "ZNONODE", exception |-> FALSE, applied |-> FALSE, get |-> ""]}
        \cup {[multi |-> c, exception |-> TRUE, applied |-> a, get |-> ""] :
                 c \in {"ZCONNECTIONLOSS", "ZOPERATIONTIMEOUT"},
                 a \in (IF reg THEN {FALSE} ELSE BOOLEAN)}
        \cup {[multi |-> "ZSESSIONEXPIRED", exception |-> TRUE, applied |-> FALSE, get |-> ""]}

\* the multi-operation applied: the block id with the checksums and the
\* log entry GET_PART exist
Applied(M) ==
    [M EXCEPT !.blocks = @ \cup {[block_id |-> M.writer.block_id, sum |-> M.writer.sum]},
              !.log = @ \cup {M.writer.part}]

\* a slip: the exception is passed on without a look at its code
catchKeeperException_NoCommit(M, code) == [M EXCEPT !.writer.thrown = "KeeperException"]

\* the handler catch (zkutil::KeeperException & e) of write
catchKeeperException(M, code) ==
    IF code \in {"ZOPERATIONTIMEOUT", "ZCONNECTIONLOSS"}
    THEN [M EXCEPT !.transaction = commit(@),
                   !.writer.committed = TRUE,
                   !.check_queue = @ \cup {M.writer.part},
                   !.writer.enqueued = TRUE,
                   !.writer.thrown = "KeeperException"]
    ELSE [M EXCEPT !.writer.thrown = "KeeperException"]

\* write, the try block with its handler
tryMultiAndHandle(M, answer) ==
    LET M1 == [(IF answer.applied THEN Applied(M) ELSE M) EXCEPT
                   !.writer.code = answer.multi, !.writer.get = answer.get, !.writer.pc = "exit"]
    IN  IF answer.exception THEN catchKeeperException(M1, answer.multi)
        ELSE IF answer.multi = "ZOK"
        THEN [M1 EXCEPT !.transaction = commit(@), !.writer.committed = TRUE]
        ELSE IF answer.multi = "ZNODEEXISTS"
        THEN IF answer.get = "true"
             THEN IF StoredChecksums(M, M.writer.block_id) = M.writer.sum
                  THEN M1
                  ELSE [M1 EXCEPT !.writer.thrown = "CHECKSUM_DOESNT_MATCH"]
             ELSE IF answer.get = "false"
             THEN [M1 EXCEPT !.writer.thrown = "UNEXPECTED_ZOOKEEPER_ERROR"]
             ELSE catchKeeperException(M1, answer.get)
        ELSE [M1 EXCEPT !.writer.thrown = "UNEXPECTED_ZOOKEEPER_ERROR"]

\* write: zookeeper->tryMulti(ops) answers
WriteMulti ==
    /\ mergetree # Null
    /\ mergetree.writer.pc = "added"
    /\ \E answer \in ZooKeeperAnswers(mergetree) :
           mergetree' = tryMultiAndHandle(mergetree, answer)
    /\ UNCHANGED nonMergeTreeVars

\* write: the scope of the Transaction and of the pointer to the part ends,
\* by return or by exception; a part that was never added is destroyed and
\* takes its temporary directory along
WriteExit ==
    /\ mergetree # Null
    /\ mergetree.writer.pc = "exit"
    /\ LET M == destroyTransaction(mergetree)
       IN  mergetree' = [M EXCEPT !.writer.pc = "idle",
                                  !.dirs = IF M.writer.part \in M.all_data_parts
                                           THEN @ ELSE @ \ {Dir(TRUE, M.writer.part)}]
    /\ UNCHANGED nonMergeTreeVars

NextMergeTree ==
    \/ Insert
    \/ Merge
    \/ ReaderAcquire
    \/ ReaderRelease
    \/ Tick
    \/ ClearOldParts
    \/ WriteTempPart
    \/ WriteAdd
    \/ WriteMulti
    \/ WriteExit

SpecMergeTree == InitMergeTree /\ [][NextMergeTree]_vars

----------------------------------------------------------------------------
(* MergeTreeData and the replicated write path: properties.                *)

\* the step in which the Transaction of write is destroyed
TransactionDestroyed ==
    /\ mergetree # Null
    /\ mergetree.writer.pc = "exit"
    /\ mergetree'.writer.pc = "idle"

C21_Step ==
    TransactionDestroyed =>
        LET t == mergetree.transaction
        IN  /\ (t.data /\ t.removed_parts # {}) =>
                   /\ t.removed_parts \cap mergetree'.data_parts = {}
                   /\ t.added_parts \subseteq mergetree'.data_parts
            /\ ~t.data =>
                   /\ mergetree'.data_parts = mergetree.data_parts
                   /\ mergetree'.all_data_parts = mergetree.all_data_parts
                   /\ mergetree'.remove_time = mergetree.remove_time
            /\ mergetree'.writer.thrown = mergetree.writer.thrown
            /\ mergetree'.transaction = NoTransaction

InWorkingSet(M, part) == \E p \in M.data_parts : contains(p, part)

\* the multi-operation of the last write ended with an unknown outcome
OutcomeUnknown(M) ==
    /\ M.writer.pc \in {"exit", "idle"}
    /\ M.writer.code \in {"ZCONNECTIONLOSS", "ZOPERATIONTIMEOUT"}

\* C22: in the replicated write path, if the ZooKeeper multi-operation ends
\* with connection loss or operation timeout, the locally added part stays
\* in the working set (the Transaction is committed), the part is enqueued
\* for a consistency check, and the error is rethrown; the part is never
\* removed in that case.
C22_KeptOnUnknownOutcome ==
    (mergetree # Null /\ OutcomeUnknown(mergetree)) =>
        /\ mergetree.writer.committed
        /\ mergetree.writer.part \in mergetree.check_queue
        /\ mergetree.writer.thrown = "KeeperException"
        /\ InWorkingSet(mergetree, mergetree.writer.part)
        /\ mergetree.writer.pc = "idle" => ~mergetree.transaction.data

\* the connection was lost before the operations were applied, write has
\* thrown: the part is in the working set, unknown to ZooKeeper
C22_Witness ==
    /\ mergetree # Null
    /\ mergetree.writer.pc = "idle"
    /\ mergetree.writer.code = "ZCONNECTIONLOSS"
    /\ mergetree.writer.thrown = "KeeperException"
    /\ mergetree.writer.part \in mergetree.data_parts
    /\ mergetree.writer.part \notin mergetree.log
    /\ mergetree.writer.part \in mergetree.check_queue


\* the id ranges of the parts are pairwise disjoint
DisjointRanges(parts_set) ==
    \A p, q \in parts_set : p # q => (p.right < q.left \/ q.right < p.left)

\* a merged part is installed in this step
MergeInstalled(into) ==
    /\ into \in mergetree'.all_data_parts \ mergetree.all_data_parts
    /\ into.level > 0

C25_Step ==
    mergetree # Null =>
        \A into \in mergetree'.all_data_parts \ mergetree.all_data_parts :
            MergeInstalled(into) =>
                LET inputs == mergetree.data_parts \ mergetree'.data_parts
                IN  /\ into \in mergetree'.data_parts
                    /\ \A p \in mergetree.data_parts : contains(into, p) => p \notin mergetree'.data_parts
                    /\ inputs # {}
                    /\ \A p \in inputs : contains(into, p)
                    /\ \E p \in inputs : p.left = into.left
                    /\ \E p \in inputs : p.right = into.right

PhysicallyRemoved == mergetree.all_data_parts \ mergetree'.all_data_parts

\* the part is inactive and only all_data_parts refers to it
Unused(p) ==
    /\ p \notin mergetree.data_parts
    /\ p \notin mergetree.reader
    /\ use_count(mergetree, p) = 1
    /\ Dir(FALSE, p) \notin mergetree'.dirs

\* old_parts_lifetime has elapsed since the part left the working set
LifetimeElapsed(p) == mergetree.now - mergetree.left_at[p] > OldPartsLifetime

\* the part left the working set by replaceParts with clear_without_timeout
ClearWithoutTimeout(p) == mergetree.remove_time[p] = 0

C26_OriginalStep ==
    mergetree # Null => \A p \in PhysicallyRemoved : Unused(p) /\ LifetimeElapsed(p)

\* C26 as stated: a part is physically removed only when it is inactive,
\* old_parts_lifetime has elapsed since it left the working set, and no
\* reader holds a reference to it.
C26_Original == [][C26_OriginalStep]_vars

C26_AmendedStep ==
    mergetree # Null =>
        \A p \in PhysicallyRemoved : Unused(p) /\ (LifetimeElapsed(p) \/ ClearWithoutTimeout(p))

\* C26, amended: a part is physically removed only when it is inactive, no
\* reader holds a reference to it, and either old_parts_lifetime has elapsed
\* since it left the working set or it left the working set by the rollback
\* of a Transaction (replaceParts with clear_without_timeout); a part in the
\* working set or referenced by a running reader is never removed.
C26_Amended == [][C26_AmendedStep]_vars

\* the parts that a merge covered were removed after their lifetime, while
\* the merged part is in the working set and a reader holds it
C26_Witness ==
    /\ mergetree # Null
    /\ PartOf(1, 2, 1) \in mergetree.data_parts
    /\ PartOf(1, 1, 0) \notin mergetree.all_data_parts
    /\ Dir(FALSE, PartOf(1, 1, 0)) \notin mergetree.dirs
    /\ PartOf(2, 2, 0) \notin mergetree.all_data_parts
    /\ ~mergetree.replicated
    /\ mergetree.increment = 2
    /\ mergetree.reader = {PartOf(1, 2, 1)}


\* tryMulti of the last write returned a code other than ZOK and write is over
DefinitelyFailed(M) ==
    /\ M.writer.pc = "idle"
    /\ M.writer.code \in {"ZNODEEXISTS", "ZNONODE"}

\* C28: in the replicated write path, whenever registering the part in
\* ZooKeeper definitely failed (tryMulti returned a code other than ZOK),
\* the part that renameTempPartAndAdd put into the working set is removed
\* from it again before write returns or throws.
C28_RemovedOnDefiniteFailure ==
    (mergetree # Null /\ DefinitelyFailed(mergetree)) =>
        ~InWorkingSet(mergetree, mergetree.writer.part)


RECURSIVE CopiesIn(_, _, _)
\* how often the block with these checksums is in the parts
CopiesIn(M, parts_set, sum) ==
    IF parts_set = {} THEN 0
    ELSE LET p == CHOOSE q \in parts_set : TRUE
         IN  M.content[p][sum] + CopiesIn(M, parts_set \ {p}, sum)

\* the last write found its block id registered and read the checksums
Deduplicated(M) ==
    /\ M.writer.pc = "idle"
    /\ M.writer.code = "ZNODEEXISTS"
    /\ M.writer.get = "true"

\* a replicated table: every insert so far came without insert_id and with
\* a known outcome
OnlyChecksumIds(M) ==
    /\ M.replicated
    /\ M.writer.pc = "idle"
    /\ \A b \in M.blocks : b.block_id.insert_id = ""
    /\ M.check_queue = {}

\* C29: replicated insert deduplication: if a block with the same block id
\* is already registered (tryMulti returns ZNODEEXISTS and the stored
\* checksums can be read), the new part is rolled back from the working set
\* and no log entry is created for it; write succeeds when the checksums of
\* the new part equal the stored ones and throws when they differ, so
\* inserting identical data twice leaves exactly one copy.
C29_Deduplication ==
    mergetree # Null =>
        /\ Deduplicated(mergetree) =>
               /\ ~InWorkingSet(mergetree, mergetree.writer.part)
               /\ mergetree.writer.part \notin mergetree.log
               /\ ~mergetree.writer.committed
               /\ IF \E b \in mergetree.blocks :
                         /\ b.block_id = mergetree.writer.block_id
                         /\ b.sum = mergetree.writer.sum
                  THEN mergetree.writer.thrown = ""
                  ELSE mergetree.writer.thrown = "CHECKSUM_DOESNT_MATCH"
        /\ OnlyChecksumIds(mergetree) =>
               \A sum \in BlockSums :
                   CopiesIn(mergetree, mergetree.data_parts, sum) =
                       IF Registered(mergetree, BlockId("", sum)) THEN 1 ELSE 0

\* the same data was inserted twice without insert_id: the second write
\* returned, its part is out of the working set, one copy is in it
C29_Witness ==
    /\ mergetree # Null
    /\ Deduplicated(mergetree)
    /\ OnlyChecksumIds(mergetree)
    /\ mergetree.writer.thrown = ""
    /\ mergetree.writer.block_id = BlockId("", 1)
    /\ mergetree.writer.part = PartOf(2, 2, 0)
    /\ mergetree.data_parts = {PartOf(1, 1, 0)}
    /\ CopiesIn(mergetree, mergetree.data_parts, 1) = 1


(***************************************************************************)
(* MergeTreeData::DataPart::~DataPart: the directory of a temporary part.  *)
(***************************************************************************)

MaxNameLen == 4

\* the characters directory names are made of
NameChars == {"t", "m", "p"}

\* the directory names: strings of at most MaxNameLen characters
Names == UNION {[1..n -> NameChars] : n \in 0..MaxNameLen}

\* a directory of the table that belongs to no part
OtherDir == <<"o">>

\* name.substr(0, strlen("tmp")): at most three characters from the start
substr3(name) == SubSeq(name, 1, Min(3, Len(name)))

\* name.substr(0, strlen("tmp")) != "tmp", negated
StartsWithTmp(name) == substr3(name) = <<"t", "m", "p">>

\* what the calls of Poco::File may do: work, or throw from exists() or
\* from remove(true)
DirFaults == {"none", "exists", "remove"}

\* a slip: the name of the directory is not looked at
destroyDataPart_NoNameCheck(D, fault) ==
    IF ~D.is_temp THEN [D EXCEPT !.destroyed = TRUE]
    ELSE IF fault = "exists" THEN [D EXCEPT !.destroyed = TRUE, !.log = "exception"]
    ELSE IF D.name \notin D.disk THEN [D EXCEPT !.destroyed = TRUE]
    ELSE IF fault = "remove" THEN [D EXCEPT !.destroyed = TRUE, !.log = "exception"]
    ELSE [D EXCEPT !.destroyed = TRUE, !.disk = @ \ {D.name}]

\* ~DataPart()
destroyDataPart(D, fault) ==
    IF ~D.is_temp THEN [D EXCEPT !.destroyed = TRUE]
    ELSE IF fault = "exists"
         THEN \* dir.exists() throws: catch (...) logs
              [D EXCEPT !.destroyed = TRUE, !.log = "exception"]
    ELSE IF D.name \notin D.disk
         THEN [D EXCEPT !.destroyed = TRUE]
    ELSE IF ~StartsWithTmp(D.name)
         THEN [D EXCEPT !.destroyed = TRUE, !.log = "suspicious"]
    ELSE IF fault = "remove"
         THEN \* dir.remove(true) throws: catch (...) logs, the directory
              \* stays, whole or in part
              [D EXCEPT !.destroyed = TRUE, !.log = "exception"]
    ELSE [D EXCEPT !.destroyed = TRUE, !.disk = @ \ {D.name}]

InitDataPart ==
    /\ \E is_temp \in BOOLEAN : \E name \in Names : \E disk \in SUBSET {name, OtherDir} :
           datapart = [is_temp |-> is_temp, name |-> name,
                       disk |-> disk, before |-> disk,
                       destroyed |-> FALSE, log |-> "", thrown |-> FALSE]
    /\ OldRestIdle
    /\ mergetree = Null /\ native = Null /\ profiling = Null /\ chunkmerger = Null
    /\ AggIdle
    /\ PoolIdle

\* the last pointer to the part goes away
DestroyDataPart ==
    /\ datapart # Null
    /\ ~datapart.destroyed
    /\ \E fault \in DirFaults : datapart' = destroyDataPart(datapart, fault)
    /\ UNCHANGED nonDataPartVars

NextDataPart == DestroyDataPart

SpecDataPart == InitDataPart /\ [][NextDataPart]_vars

\* the destructor has run on a temporary part whose tmp-named directory was
\* on the disk
TempDirDestroyed ==
    /\ datapart # Null
    /\ datapart.destroyed
    /\ datapart.is_temp
    /\ StartsWithTmp(datapart.name)
    /\ datapart.name \in datapart.before

\* what C23 says of the directories that stay: the destructor deletes only
\* the directory of a temporary part with a name that starts with tmp,
\* deletes no directory with another name, and does not throw
C23_OnlyTempTmp ==
    (datapart # Null /\ datapart.destroyed) =>
        /\ datapart.disk \subseteq datapart.before
        /\ datapart.before \ datapart.disk \subseteq {datapart.name}
        /\ datapart.disk # datapart.before => datapart.is_temp /\ StartsWithTmp(datapart.name)
        /\ ~datapart.thrown

\* C23 as stated: the DataPart destructor deletes the part directory only if
\* the part is marked temporary and its directory name starts with tmp; a
\* directory whose name does not start with tmp is never deleted, a temporary
\* part's tmp-named directory is always deleted, and the destructor never
\* throws.
C23_Original ==
    /\ C23_OnlyTempTmp
    /\ TempDirDestroyed => datapart.name \notin datapart.disk

\* C23 amended: as C23_Original, but the tmp-named directory of a temporary
\* part is deleted unless a call of Poco::File throws; the exception is
\* logged and swallowed and the directory stays.
C23_Amended ==
    /\ C23_OnlyTempTmp
    /\ TempDirDestroyed =>
           \/ datapart.name \notin datapart.disk /\ datapart.log = ""
           \/ datapart.name \in datapart.disk /\ datapart.log = "exception"

\* a temporary part with a directory named tmp was destroyed, the directory
\* is gone and the other directory is still there
C23_Witness ==
    /\ TempDirDestroyed
    /\ datapart.name = <<"t", "m", "p">>
    /\ datapart.before = {datapart.name, OtherDir}
    /\ datapart.disk = {OtherDir}
    /\ datapart.log = ""


(***************************************************************************)
(* NativeBlockInputStream: blocks read from a stream of values.  The input *)
(* is a sequence of tokens; a varuint, a string and a number are one token *)
(* each.                                                                   *)
(***************************************************************************)

MaxStreamLen == 7
MaxToken == 3

Tokens == 0..MaxToken

\* the inputs: every sequence of at most MaxStreamLen tokens
NativeInputs == UNION {[1..n -> Tokens] : n \in 0..MaxStreamLen}

\* the type names the factory knows, by the token that names them
TypeNames == <<"UInt8", "Array(UInt8)", "Nested(a UInt8, b UInt8)", "Array(Array(UInt8))">>

\* data_type_factory.get(type_name); "" stands for the exception on an
\* unknown name
data_type_factory_get(token) ==
    IF token + 1 <= Len(TypeNames) THEN TypeNames[token + 1] ELSE ""

\* dynamic_cast<const DataTypeArray *>(&type)
IsDataTypeArray(type) == type \in {"Array(UInt8)", "Array(Array(UInt8))"}

\* dynamic_cast<const DataTypeNested *>(&type)
IsDataTypeNested(type) == type = "Nested(a UInt8, b UInt8)"

\* type_arr->getNestedType()
getNestedType(type) == IF type = "Array(Array(UInt8))" THEN "Array(UInt8)" ELSE "UInt8"

\* type_nested->getNestedTypesList()
getNestedTypesList(type) == <<"UInt8", "UInt8">>

RECURSIVE createColumn(_)
\* column.type->createColumn(): an empty column with its empty inner columns
createColumn(type) ==
    [offsets |-> <<>>, values |-> <<>>,
     inner |-> IF IsDataTypeArray(type) THEN <<createColumn(getNestedType(type))>>
               ELSE IF IsDataTypeNested(type)
                    THEN [k \in 1..Len(getNestedTypesList(type)) |->
                              createColumn(getNestedTypesList(type)[k])]
               ELSE <<>>]

\* column.size(): the number of offsets of an array or nested column, the
\* number of values of another column
ColumnSize(type, col) ==
    IF IsDataTypeArray(type) \/ IsDataTypeNested(type) THEN Len(col.offsets) ELSE Len(col.values)

\* deserializeBinary of numbers with a limit: the values that are there, at
\* most limit of them
deserializeBinary(istr, limit) ==
    LET n == Min(limit, Len(istr))
    IN  [got |-> SubSeq(istr, 1, n), rest |-> SubSeq(istr, n + 1, Len(istr)), short |-> n < limit]

\* a slip: only the offsets are counted
SizeMismatch_OffsetsOnly(type, col, nrows) ==
    (IsDataTypeArray(type) \/ IsDataTypeNested(type)) /\ Len(col.offsets) # nrows

\* column.size() != rows
SizeMismatch(type, col, nrows) == ColumnSize(type, col) # nrows

\* throw Exception("Cannot read all data in NativeBlockInputStream.", ...)
CannotReadAllData(type, istr) ==
    [col |-> createColumn(type), istr |-> istr, exception |-> "CANNOT_READ_ALL_DATA", short |-> TRUE]

RECURSIVE readData(_, _, _)
RECURSIVE readNestedData(_, _, _, _, _)

\* the loop of readData over the columns of a nested column, from column i
readNestedData(types, i, istr, nrows, acc) ==
    IF i > Len(types) THEN [cols |-> acc, istr |-> istr, exception |-> "", short |-> FALSE]
    ELSE LET r == readData(types[i], istr, nrows)
         IN  IF r.exception # ""
             THEN [cols |-> acc, istr |-> r.istr, exception |-> r.exception, short |-> r.short]
             ELSE readNestedData(types, i + 1, r.istr, nrows, Append(acc, r.col))

\* readData(type, column, istr, rows): the column read, what is left of the
\* input, the exception thrown ("": none) and whether the input ran out
readData(type, istr, nrows) ==
    IF IsDataTypeArray(type) \/ IsDataTypeNested(type)
    THEN LET d == deserializeBinary(istr, nrows)
             offsets_column == [createColumn(type) EXCEPT !.offsets = d.got]
         IN  IF SizeMismatch(type, offsets_column, nrows)
             THEN CannotReadAllData(type, d.rest)
             ELSE IF nrows = 0
             THEN [col |-> offsets_column, istr |-> d.rest, exception |-> "", short |-> d.short]
             ELSE IF IsDataTypeArray(type)
             THEN LET r == readData(getNestedType(type), d.rest, d.got[nrows])
                  IN  [col |-> [offsets_column EXCEPT !.inner = <<r.col>>],
                       istr |-> r.istr, exception |-> r.exception, short |-> r.short]
             ELSE LET r == readNestedData(getNestedTypesList(type), 1, d.rest, d.got[nrows], <<>>)
                  IN  [col |-> [offsets_column EXCEPT !.inner = r.cols],
                       istr |-> r.istr, exception |-> r.exception, short |-> r.short]
    ELSE LET d == deserializeBinary(istr, nrows)
             read == [createColumn(type) EXCEPT !.values = d.got]
         IN  IF SizeMismatch(type, read, nrows)
             THEN CannotReadAllData(type, d.rest)
             ELSE [col |-> read, istr |-> d.rest, exception |-> "", short |-> d.short]

\* what readVarUInt and readStringBinary may throw at the end of the input
EofCodes == {"ATTEMPT_TO_READ_AFTER_EOF", "CANNOT_READ_ALL_DATA"}

\* what a call of readImpl gives: a block or an exception
ReadResult(block, istr, exception, cols, nrows, short) ==
    [block |-> block, istr |-> istr, exception |-> exception,
     cols |-> cols, nrows |-> nrows, short |-> short]

RECURSIVE readColumns(_, _, _, _, _)
\* the loop of readImpl over the columns; a block that is not returned is
\* written <<>>
readColumns(istr, cols, nrows, block, eof_code) ==
    IF Len(block) = cols THEN ReadResult(block, istr, "", cols, nrows, FALSE)
    ELSE IF Len(istr) < 2 THEN ReadResult(<<>>, <<>>, eof_code, cols, nrows, FALSE)
    ELSE LET type == data_type_factory_get(istr[2])
             r == readData(type, SubSeq(istr, 3, Len(istr)), nrows)
         IN  IF type = "" THEN ReadResult(<<>>, SubSeq(istr, 3, Len(istr)), "UNKNOWN_TYPE", cols, nrows, FALSE)
             ELSE IF r.exception # "" THEN ReadResult(<<>>, r.istr, r.exception, cols, nrows, r.short)
             ELSE readColumns(r.istr, cols, nrows,
                              Append(block, [name |-> istr[1], type |-> type, col |-> r.col]),
                              eof_code)

\* NativeBlockInputStream::readImpl
NativeReadImpl(istr, eof_code) ==
    IF istr = <<>> THEN ReadResult(<<>>, istr, "", 0, 0, FALSE)
    ELSE IF Len(istr) < 2 THEN ReadResult(<<>>, <<>>, eof_code, istr[1], 0, FALSE)
    ELSE readColumns(SubSeq(istr, 3, Len(istr)), istr[1], istr[2], <<>>, eof_code)

InitNative ==
    /\ \E input \in NativeInputs :
           native = [istr |-> input, reads |-> 0, pc |-> "open",
                     last |-> ReadResult(<<>>, input, "", 0, 0, FALSE)]
    /\ OldRestIdle
    /\ mergetree = Null /\ profiling = Null /\ chunkmerger = Null /\ datapart = Null
    /\ AggIdle
    /\ PoolIdle

\* read() of the stream; the caller stops at an exception and at an empty
\* block
NativeRead ==
    /\ native # Null
    /\ native.pc = "open"
    /\ \E eof_code \in EofCodes :
           LET r == NativeReadImpl(native.istr, eof_code)
           IN  native' = [istr |-> r.istr, reads |-> native.reads + 1, last |-> r,
                          pc |-> IF r.exception # "" THEN "thrown"
                                 ELSE IF r.block = <<>> THEN "end" ELSE "open"]
    /\ UNCHANGED nonNativeVars

NextNative == NativeRead

SpecNative == InitNative /\ [][NextNative]_vars

RECURSIVE WellSized(_, _, _)
\* the column holds n rows: n values, or n offsets and as many inner values
\* as the last offset says
WellSized(type, col, n) ==
    IF IsDataTypeArray(type) \/ IsDataTypeNested(type)
    THEN /\ Len(col.offsets) = n
         /\ LET m == IF n = 0 THEN 0 ELSE col.offsets[n]
                types == IF IsDataTypeArray(type) THEN <<getNestedType(type)>>
                         ELSE getNestedTypesList(type)
            IN  /\ Len(col.inner) = Len(types)
                /\ \A k \in 1..Len(types) : WellSized(types[k], col.inner[k], m)
    ELSE Len(col.values) = n

\* C24: every non-empty block returned by NativeBlockInputStream has exactly
\* the announced number of columns, each holding exactly the announced
\* number of rows (for array and nested columns: as many offsets as rows and
\* as many inner values as the last offset); if the input holds fewer
\* values, read fails with CANNOT_READ_ALL_DATA and returns no block.
C24_BlockShape ==
    (native # Null /\ native.reads > 0) =>
        LET r == native.last
        IN  /\ (r.exception = "" /\ r.block # <<>>) =>
                   /\ Len(r.block) = r.cols
                   /\ \A i \in 1..Len(r.block) : WellSized(r.block[i].type, r.block[i].col, r.nrows)
            /\ r.short => r.exception = "CANNOT_READ_ALL_DATA"
            /\ r.exception # "" => r.block = <<>>

\* a block of one row was returned whose column is an array of two values
C24_Witness ==
    /\ native # Null
    /\ native.reads = 1
    /\ native.last.exception = ""
    /\ native.last.cols = 1
    /\ native.last.nrows = 1
    /\ Len(native.last.block) = 1
    /\ native.last.block[1].type = "Array(UInt8)"
    /\ native.last.block[1].col.offsets = <<2>>
    /\ Len(native.last.block[1].col.inner[1].values) = 2


(***************************************************************************)
(* IProfilingBlockInputStream::cancel and read on a tree of streams: two   *)
(* threads that cancel and one that drains the root.                       *)
(***************************************************************************)

NumStreams == 3
MaxLeafBlocks == 1
NumCancellers == 2

StreamIds == 1..NumStreams
\* the stream the reader drains: the one without a parent
RootStream == CHOOSE r \in StreamIds : \A o \in StreamIds : r <= o
Cancellers == 1..NumCancellers

\* the trees: every stream but the root has a parent with a smaller number
StreamTrees == {t \in [2..NumStreams -> StreamIds] : \A c \in 2..NumStreams : t[c] < c}

\* children of the stream
ChildrenOf(P, stream_id) == {c \in 2..NumStreams : P.parent[c] = stream_id}

RECURSIVE InOrder(_)
\* the streams of a set in the order of the vector children
InOrder(ids) ==
    IF ids = {} THEN <<>>
    ELSE LET first == CHOOSE c \in ids : \A d \in ids : c <= d
         IN  <<first>> \o InOrder(ids \ {first})

RECURSIVE Descendants(_, _)
\* the stream with its children, their children and so on
Descendants(P, stream_id) ==
    {stream_id} \cup UNION {Descendants(P, c) : c \in ChildrenOf(P, stream_id)}

\* a slip: the children are not asked
cancel_NotRecursive(P, c) ==
    LET stream_id == Head(P.cancellers[c].todo)
    IN  [P EXCEPT !.is_cancelled[stream_id] = TRUE,
                  !.cancellers[c].todo = Tail(@)]

\* cancel() of the stream on top of the calls of thread c: the flag is set,
\* then cancel() is called on every child
cancel(P, c) ==
    LET stream_id == Head(P.cancellers[c].todo)
    IN  [P EXCEPT !.is_cancelled[stream_id] = TRUE,
                  !.cancellers[c].todo = InOrder(ChildrenOf(P, stream_id)) \o Tail(@)]

RECURSIVE returnBlock(_, _, _)
\* read() of the stream returns to its caller: a block passes through the
\* parents to the reader; after an empty block the parent goes on with its
\* next child
returnBlock(P, stream_id, empty) ==
    IF stream_id = RootStream
    THEN [P EXCEPT !.reader = [pc |-> IF empty THEN "done" ELSE "idle", at |-> RootStream],
                   !.late = IF ~empty /\ RootStream \in P.returned THEN Min(@ + 1, 2) ELSE @]
    ELSE IF empty
         THEN [P EXCEPT !.exhausted[stream_id] = TRUE,
                        !.reader = [pc |-> "impl", at |-> P.parent[stream_id]]]
         ELSE returnBlock(P, P.parent[stream_id], FALSE)

\* read() up to readImpl(): a cancelled stream returns an empty block
read(P, stream_id) ==
    IF P.is_cancelled[stream_id] THEN returnBlock(P, stream_id, TRUE)
    ELSE [P EXCEPT !.reader.pc = "impl"]

\* readImpl(): a source gives its next block or an empty block; another
\* stream reads its first child that has not ended
readImpl_OfStream(P, stream_id) ==
    LET open == {c \in ChildrenOf(P, stream_id) : ~P.exhausted[c]}
    IN  IF ChildrenOf(P, stream_id) = {}
        THEN IF P.endless[stream_id] THEN returnBlock(P, stream_id, FALSE)
             ELSE IF P.left[stream_id] = 0 THEN returnBlock(P, stream_id, TRUE)
             ELSE returnBlock([P EXCEPT !.left[stream_id] = @ - 1], stream_id, FALSE)
        ELSE IF open = {} THEN returnBlock(P, stream_id, TRUE)
        ELSE [P EXCEPT !.reader = [pc |-> "read", at |-> Head(InOrder(open))]]

InitProfiling ==
    /\ \E tree \in StreamTrees : \E left \in [StreamIds -> 0..MaxLeafBlocks] :
       \E endless \in [StreamIds -> BOOLEAN] :
           /\ \A stream_id \in StreamIds :
                  (\E c \in 2..NumStreams : tree[c] = stream_id) =>
                      left[stream_id] = 0 /\ ~endless[stream_id]
           /\ \A stream_id \in StreamIds : endless[stream_id] => left[stream_id] = 0
           /\ profiling = [parent |-> tree, left |-> left, endless |-> endless,
                           is_cancelled |-> [stream_id \in StreamIds |-> FALSE],
                           exhausted |-> [stream_id \in StreamIds |-> FALSE],
                           reader |-> [pc |-> "idle", at |-> RootStream],
                           cancellers |-> [c \in Cancellers |-> [target |-> RootStream, todo |-> <<>>, running |-> FALSE]],
                           returned |-> {},
                           late |-> 0]
    /\ OldRestIdle
    /\ mergetree = Null /\ native = Null /\ chunkmerger = Null /\ datapart = Null
    /\ AggIdle
    /\ PoolIdle

\* a thread calls cancel() on a stream
CancelCall ==
    /\ profiling # Null
    /\ \E c \in Cancellers : \E target \in StreamIds :
           /\ ~profiling.cancellers[c].running
           /\ profiling' = [profiling EXCEPT
                  !.cancellers[c] = [target |-> target, todo |-> <<target>>, running |-> TRUE]]
    /\ UNCHANGED nonProfilingVars

\* the thread goes on to the next stream
CancelStep ==
    /\ profiling # Null
    /\ \E c \in Cancellers :
           /\ profiling.cancellers[c].running
           /\ profiling.cancellers[c].todo # <<>>
           /\ profiling' = cancel(profiling, c)
    /\ UNCHANGED nonProfilingVars

\* the outermost cancel() of the thread returns
CancelReturn ==
    /\ profiling # Null
    /\ \E c \in Cancellers :
           /\ profiling.cancellers[c].running
           /\ profiling.cancellers[c].todo = <<>>
           /\ profiling' = [profiling EXCEPT
                  !.cancellers[c].running = FALSE,
                  !.returned = @ \cup {profiling.cancellers[c].target}]
    /\ UNCHANGED nonProfilingVars

\* the reader drains the root: it calls read() again after every block
ReadCall ==
    /\ profiling # Null
    /\ profiling.reader.pc = "idle"
    /\ profiling' = [profiling EXCEPT !.reader = [pc |-> "read", at |-> RootStream]]
    /\ UNCHANGED nonProfilingVars

\* read() of the stream the reader is at
ReadEnter ==
    /\ profiling # Null
    /\ profiling.reader.pc = "read"
    /\ profiling' = read(profiling, profiling.reader.at)
    /\ UNCHANGED nonProfilingVars

\* readImpl() of the stream the reader is at
ReadImpl ==
    /\ profiling # Null
    /\ profiling.reader.pc = "impl"
    /\ profiling' = readImpl_OfStream(profiling, profiling.reader.at)
    /\ UNCHANGED nonProfilingVars

NextProfiling ==
    \/ CancelCall
    \/ CancelStep
    \/ CancelReturn
    \/ ReadCall
    \/ ReadEnter
    \/ ReadImpl

SpecProfiling == InitProfiling /\ [][NextProfiling]_vars

\* the reader goes on draining; the threads that cancel may stop anywhere
SpecProfilingFair ==
    SpecProfiling /\ WF_vars(ReadCall) /\ WF_vars(ReadEnter) /\ WF_vars(ReadImpl)

\* a cancel() that has returned left the flag set on the stream and on all
\* streams below it
CancelledBelow ==
    profiling # Null =>
        \A target \in profiling.returned :
            \A stream_id \in Descendants(profiling, target) : profiling.is_cancelled[stream_id]

\* no flag is reset, and where a cancel() has returned another one changes
\* no flag
FlagsStay ==
    (profiling # Null /\ profiling' # Null) =>
        /\ \A stream_id \in StreamIds :
               profiling.is_cancelled[stream_id] => profiling'.is_cancelled[stream_id]
        /\ \A target \in profiling.returned :
               \A stream_id \in Descendants(profiling, target) :
                   profiling'.is_cancelled[stream_id] = profiling.is_cancelled[stream_id]

\* cancel() of the root has returned
RootCancelled == profiling # Null /\ RootStream \in profiling.returned

\* read() of the root has returned an empty block
Drained == profiling # Null /\ profiling.reader.pc = "done"

\* C27: cancel() sets the stream's is_cancelled flag and cancels all its
\* children recursively; the flag is never reset, a repeated or concurrent
\* cancel() (also concurrent with read()) changes nothing further, and
\* after cancel() draining read() returns only finitely many blocks (at most
\* the one of a read() under way) before an empty block.
C27_Cancel ==
    /\ [](CancelledBelow /\ (profiling # Null => profiling.late <= 1))
    /\ [][FlagsStay]_vars
    /\ (RootCancelled ~> Drained)

\* an endless source under the root was cancelled while a read() was under
\* way: that read() returned a block, the next one an empty block, and a
\* second cancel() has returned as well
C27_Witness ==
    /\ Drained
    /\ profiling.late = 1
    /\ profiling.returned = {RootStream, 2}
    /\ \E stream_id \in StreamIds : profiling.endless[stream_id]
    /\ \A stream_id \in StreamIds : profiling.is_cancelled[stream_id]


(***************************************************************************)
(* StorageChunkMerger::mergeChunks and the static set                      *)
(* currently_written_groups, shared by the mergers of the server.          *)
(***************************************************************************)

NumMergers == 2

Mergers == 1..NumMergers

\* the values of new_table_full_name: mergers of the same chunks make the
\* same name
GroupNames == {"db.chunks_1_2", "db.chunks_3_4"}

\* no merger
NoMerger == CHOOSE n \in 0..NumMergers : n \notin Mergers

\* currently_written_groups.erase(new_table_full_name), by merger m
erase(C, m) ==
    LET what == C.mergers[m].new_table_full_name
    IN  [C EXCEPT !.currently_written_groups = @ \ {what},
                  !.inserted_by[what] = NoMerger,
                  !.erased_foreign = @ \/ (what \in C.currently_written_groups /\ C.inserted_by[what] # m)]

\* mergeChunks is left: by return true, by return false or by an exception
exitMergeChunks(C, m, how) ==
    [C EXCEPT !.mergers[m].pc = "idle", !.mergers[m].exit = how]

\* the handler catch (...) of mergeChunks
catchAll(C, m) == exitMergeChunks(erase(C, m), m, "thrown")

\* the block under the mutex of the context at the start of the try
enterGroup(C, m) ==
    LET what == C.mergers[m].new_table_full_name
    IN  IF ~C.database_exists THEN catchAll(C, m)
        ELSE IF what \in C.currently_written_groups
             THEN exitMergeChunks(C, m, "false: already being written")
        ELSE [C EXCEPT !.currently_written_groups = @ \cup {what},
                       !.inserted_by[what] = m,
                       !.mergers[m].pc = "writing"]

\* if (shutdown_called) { ... return false; } after the loop of copying
shutdownRequested(C, m) == exitMergeChunks(C, m, "false: shutdown requested")

\* the block under the mutex of the context that puts the references in
\* the place of the source tables
swapTables(C, m, fault) ==
    IF fault THEN catchAll(C, m)
    ELSE [erase(C, m) EXCEPT !.mergers[m].pc = "drop"]

InitChunkMerger ==
    /\ chunkmerger = [currently_written_groups |-> {},
                      inserted_by |-> [what \in GroupNames |-> NoMerger],
                      erased_foreign |-> FALSE,
                      database_exists |-> TRUE,
                      mergers |-> [m \in Mergers |->
                                      [pc |-> "idle", new_table_full_name |-> "",
                                       shutdown_called |-> FALSE, exit |-> ""]]]
    /\ OldRestIdle
    /\ mergetree = Null /\ native = Null /\ profiling = Null /\ datapart = Null
    /\ AggIdle
    /\ PoolIdle

\* maybeMergeSomething calls mergeChunks; the chunks give the name
MergeChunksCall ==
    /\ chunkmerger # Null
    /\ \E m \in Mergers : \E what \in GroupNames :
           /\ chunkmerger.mergers[m].pc = "idle"
           /\ ~chunkmerger.mergers[m].shutdown_called
           /\ chunkmerger' = [chunkmerger EXCEPT
                  !.mergers[m].pc = "try",
                  !.mergers[m].new_table_full_name = what,
                  !.mergers[m].exit = ""]
    /\ UNCHANGED nonChunkMergerVars

EnterGroup ==
    /\ chunkmerger # Null
    /\ \E m \in Mergers :
           /\ chunkmerger.mergers[m].pc = "try"
           /\ chunkmerger' = enterGroup(chunkmerger, m)
    /\ UNCHANGED nonChunkMergerVars

\* DROP TABLE, CREATE TABLE or the copying of a chunk throws
WriteThrows ==
    /\ chunkmerger # Null
    /\ \E m \in Mergers :
           /\ chunkmerger.mergers[m].pc = "writing"
           /\ chunkmerger' = catchAll(chunkmerger, m)
    /\ UNCHANGED nonChunkMergerVars

\* the loop of copying ends because shutdown_called is set
WriteShutdown ==
    /\ chunkmerger # Null
    /\ \E m \in Mergers :
           /\ chunkmerger.mergers[m].pc = "writing"
           /\ chunkmerger.mergers[m].shutdown_called
           /\ chunkmerger' = shutdownRequested(chunkmerger, m)
    /\ UNCHANGED nonChunkMergerVars

\* all chunks are copied
WriteDone ==
    /\ chunkmerger # Null
    /\ \E m \in Mergers :
           /\ chunkmerger.mergers[m].pc = "writing"
           /\ ~chunkmerger.mergers[m].shutdown_called
           /\ chunkmerger' = [chunkmerger EXCEPT !.mergers[m].pc = "swap"]
    /\ UNCHANGED nonChunkMergerVars

SwapTables ==
    /\ chunkmerger # Null
    /\ \E m \in Mergers : \E fault \in BOOLEAN :
           /\ chunkmerger.mergers[m].pc = "swap"
           /\ chunkmerger' = swapTables(chunkmerger, m, fault)
    /\ UNCHANGED nonChunkMergerVars

\* the detached tables are dropped and mergeChunks returns true, or
\* dropDetachedTable throws
DropDetached ==
    /\ chunkmerger # Null
    /\ \E m \in Mergers : \E fault \in BOOLEAN :
           /\ chunkmerger.mergers[m].pc = "drop"
           /\ chunkmerger' = IF fault THEN catchAll(chunkmerger, m)
                             ELSE exitMergeChunks(chunkmerger, m, "true")
    /\ UNCHANGED nonChunkMergerVars

\* StorageChunkMerger::shutdown up to cancel_merge_thread.set()
ChunkMergerShutdown ==
    /\ chunkmerger # Null
    /\ \E m \in Mergers :
           /\ ~chunkmerger.mergers[m].shutdown_called
           /\ chunkmerger' = [chunkmerger EXCEPT !.mergers[m].shutdown_called = TRUE]
    /\ UNCHANGED nonChunkMergerVars

\* the source database is dropped by a query
DropDatabase ==
    /\ chunkmerger # Null
    /\ chunkmerger.database_exists
    /\ chunkmerger' = [chunkmerger EXCEPT !.database_exists = FALSE]
    /\ UNCHANGED nonChunkMergerVars

NextChunkMerger ==
    \/ MergeChunksCall
    \/ EnterGroup
    \/ WriteThrows
    \/ WriteShutdown
    \/ WriteDone
    \/ SwapTables
    \/ DropDetached
    \/ ChunkMergerShutdown
    \/ DropDatabase

SpecChunkMerger == InitChunkMerger /\ [][NextChunkMerger]_vars

\* merger m has inserted the name and writes the table
WritingGroup(C, m, what) ==
    /\ C.mergers[m].new_table_full_name = what
    /\ C.mergers[m].pc \in {"writing", "swap"}

\* C30: currently_written_groups contains a destination table name exactly
\* while some ChunkMerger is writing that table: a merger inserts the name
\* before it starts writing, aborts if the name is already present, and the
\* name it inserted is absent again once its mergeChunks call has returned
\* or thrown, on every exit path (success, exception at any step, shutdown
\* requested mid-merge); a merger never removes a name inserted by another
\* merger.
C30_WrittenGroups ==
    chunkmerger # Null =>
        /\ \A what \in GroupNames :
               what \in chunkmerger.currently_written_groups <=>
                   \E m \in Mergers : WritingGroup(chunkmerger, m, what)
        /\ \A m \in Mergers : \A n \in Mergers :
               \A what \in GroupNames :
                   WritingGroup(chunkmerger, m, what) /\ WritingGroup(chunkmerger, n, what) => m = n
        /\ ~chunkmerger.erased_foreign

\* the exit on shutdown alone: the name stays in the set after return false
ShutdownLeavesName ==
    /\ chunkmerger # Null
    /\ \E m \in Mergers :
           /\ chunkmerger.mergers[m].exit = "false: shutdown requested"
           /\ chunkmerger.mergers[m].pc = "idle"
           /\ chunkmerger.mergers[m].new_table_full_name \in chunkmerger.currently_written_groups
           /\ \A n \in Mergers : chunkmerger.mergers[n].pc = "idle"

\* the handler alone: a merger that threw has removed the name of another
\* merger that is still writing
ForeignNameErased ==
    /\ chunkmerger # Null
    /\ chunkmerger.erased_foreign
    /\ \A m \in Mergers : ~chunkmerger.mergers[m].shutdown_called


(***************************************************************************)
(* StorageChunkMerger::mergeChunks: the source tables are replaced by      *)
(* references to the new table, as seen under the mutex of the context.    *)
(***************************************************************************)

NumChunks == 3

\* the source tables of one merge, by their place in chunks
ChunkIds == 1..NumChunks

\* the loop over the chunks under the mutex, from chunk_index on: a table
\* that is gone is skipped, another is detached and a StorageChunkRef is
\* added in its place; addTable of the chunk fail_at throws
RECURSIVE replaceByRefs(_, _, _)
replaceByRefs(S, chunk_index, fail_at) ==
    IF chunk_index > NumChunks THEN [S EXCEPT !.pc = "drop"]
    ELSE IF S.tables[chunk_index] = "none"
         THEN replaceByRefs(S, chunk_index + 1, fail_at)
    ELSE LET detached == [S EXCEPT !.tables[chunk_index] = "none",
                                   !.tables_to_drop = Append(@, chunk_index)]
         IN  IF chunk_index = fail_at
             THEN [detached EXCEPT !.pc = "thrown", !.lost = @ \cup {chunk_index}]
             ELSE replaceByRefs([detached EXCEPT !.tables[chunk_index] = "ChunkRef"],
                                chunk_index + 1, fail_at)

\* the block under the mutex at lines 462-495
swapUnderMutex(S, fail_at) ==
    IF S.database_exists THEN replaceByRefs(S, 1, fail_at) ELSE [S EXCEPT !.pc = "drop"]

InitChunkSwap ==
    /\ chunkmerger = [tables |-> [c \in ChunkIds |-> "source"],
                      database_exists |-> TRUE,
                      dropped_by_query |-> {},
                      tables_to_drop |-> <<>>,
                      data_dropped |-> {},
                      lost |-> {},
                      pc |-> "copy"]
    /\ OldRestIdle
    /\ mergetree = Null /\ native = Null /\ profiling = Null /\ datapart = Null
    /\ AggIdle
    /\ PoolIdle

\* the merger takes the mutex and replaces the tables
SwapUnderMutex ==
    /\ chunkmerger # Null
    /\ chunkmerger.pc = "copy"
    /\ \E fail_at \in 0..NumChunks : chunkmerger' = swapUnderMutex(chunkmerger, fail_at)
    /\ UNCHANGED nonChunkMergerVars

\* dropDetachedTable of the next detached table, without the mutex
DropDetachedTable ==
    /\ chunkmerger # Null
    /\ chunkmerger.pc = "drop"
    /\ chunkmerger' =
           IF chunkmerger.tables_to_drop = <<>> THEN [chunkmerger EXCEPT !.pc = "merged"]
           ELSE [chunkmerger EXCEPT !.tables_to_drop = Tail(@),
                                    !.data_dropped = @ \cup {Head(chunkmerger.tables_to_drop)}]
    /\ UNCHANGED nonChunkMergerVars

\* a query drops one of the tables
QueryDropsTable ==
    /\ chunkmerger # Null
    /\ chunkmerger.database_exists
    /\ \E c \in ChunkIds :
           /\ chunkmerger.tables[c] # "none"
           /\ chunkmerger' = [chunkmerger EXCEPT !.tables[c] = "none",
                                                 !.dropped_by_query = @ \cup {c}]
    /\ UNCHANGED nonChunkMergerVars

\* a query drops the database
QueryDropsDatabase ==
    /\ chunkmerger # Null
    /\ chunkmerger.database_exists
    /\ chunkmerger' = [chunkmerger EXCEPT
           !.database_exists = FALSE,
           !.dropped_by_query = @ \cup {c \in ChunkIds : chunkmerger.tables[c] # "none"},
           !.tables = [c \in ChunkIds |-> "none"]]
    /\ UNCHANGED nonChunkMergerVars

NextChunkSwap ==
    \/ SwapUnderMutex
    \/ DropDetachedTable
    \/ QueryDropsTable
    \/ QueryDropsDatabase

SpecChunkSwap == InitChunkSwap /\ [][NextChunkSwap]_vars

\* C31: mergeChunks replaces the source tables by ChunkRef tables atomically
\* with respect to the context mutex: whoever holds the mutex sees either
\* every still-existing source table in its original form or every one of
\* them replaced by a ChunkRef to the new Chunks table, never a mix and
\* never a source name missing from the database (but by a query that
\* dropped it).
C31_AtomicSwap ==
    chunkmerger # Null =>
        LET existing == {c \in ChunkIds : chunkmerger.tables[c] # "none"}
        IN  /\ \/ \A c \in existing : chunkmerger.tables[c] = "source"
               \/ \A c \in existing : chunkmerger.tables[c] = "ChunkRef"
            /\ \A c \in ChunkIds :
                   chunkmerger.tables[c] = "none" => c \in chunkmerger.dropped_by_query


(***************************************************************************)
(* CompareHelper<T>::compare and ColumnVector<T>::compareAt for the        *)
(* integer types.  All widths are scaled: a byte has ByteBits bits.        *)
(***************************************************************************)

ByteBits == 1

RECURSIVE Pow2(_)
Pow2(n) == IF n = 0 THEN 1 ELSE 2 * Pow2(n - 1)

\* sizeof(T) of UInt8 and Int8, UInt16 and Int16, UInt32 and Int32, UInt64
\* and Int64
TypeBytes == {1, 2, 4, 8}

\* sizeof(int)
IntBytes == 4

IntegerTypes == [signed : BOOLEAN, bytes : TypeBytes]

\* the values of a type of so many bytes
ValuesOfType(signed, bytes) ==
    IF signed THEN -Pow2(bytes * ByteBits - 1) .. Pow2(bytes * ByteBits - 1) - 1
    ELSE 0 .. Pow2(bytes * ByteBits) - 1

\* the conversion of an integer to int: modulo 2^N into the range of int
ToInt(x) ==
    LET m == x % Pow2(IntBytes * ByteBits)
    IN  IF m >= Pow2(IntBytes * ByteBits - 1) THEN m - Pow2(IntBytes * ByteBits) ELSE m

\* what return a - b can give as an int: operands narrower than int are
\* promoted to int; unsigned operands of the width of int or wider are
\* subtracted modulo 2^width and converted; the overflow of a signed
\* subtraction is undefined and may give any int
compare(T, a, b) ==
    IF T.bytes < IntBytes THEN {a - b}
    ELSE IF ~T.signed THEN {ToInt((a - b) % Pow2(T.bytes * ByteBits))}
    ELSE IF a - b \in ValuesOfType(TRUE, T.bytes) THEN {ToInt(a - b)}
    ELSE ValuesOfType(TRUE, IntBytes)

InitCompare ==
    /\ \E T \in IntegerTypes :
       \E a \in ValuesOfType(T.signed, T.bytes) : \E b \in ValuesOfType(T.signed, T.bytes) :
           column = [T |-> T, a |-> a, b |-> b, called |-> FALSE, res |-> 0]
    /\ choose = Null /\ states = Null /\ distinct = Null /\ tinylog = Null
    /\ memory = Null /\ views = Null
    /\ MoreIdle
    /\ AggIdle
    /\ PoolIdle

\* compareAt(n, m, rhs, nan_direction_hint) on data[n] = a, rhs.data[m] = b
CompareAt ==
    /\ column # Null
    /\ ~column.called
    /\ \E r \in compare(column.T, column.a, column.b) :
           column' = [column EXCEPT !.called = TRUE, !.res = r]
    /\ UNCHANGED nonColumnVars

NextCompare == CompareAt

SpecCompare == InitCompare /\ [][NextCompare]_vars

\* C32: for integer columns of every width (8, 16, 32 and 64 bits, signed
\* and unsigned), compareAt returns a negative, zero or positive int exactly
\* when the left value is less than, equal to or greater than the right
\* value.
C32_CompareSign ==
    (column # Null /\ column.called) =>
        /\ column.res < 0 <=> column.a < column.b
        /\ column.res = 0 <=> column.a = column.b
        /\ column.res > 0 <=> column.a > column.b

\* the narrow types alone: operands narrower than int are compared rightly
CompareSignOfNarrow ==
    (column # Null /\ column.called /\ column.T.bytes < IntBytes) =>
        /\ column.res < 0 <=> column.a < column.b
        /\ column.res = 0 <=> column.a = column.b
        /\ column.res > 0 <=> column.a > column.b


(***************************************************************************)
(* ReadBufferFromFileDescriptor: nextImpl and seek over a file whose byte  *)
(* at an offset is the offset itself.                                      *)
(***************************************************************************)

MaxFileLen == 4
MaxBufSize == 3

\* the offsets a caller asks for, with SEEK_SET and with SEEK_CUR
SeekOffsets == -MaxFileLen .. MaxFileLen + 1

\* working_buffer.end() - pos
Available(B) == Len(B.working_buffer) - B.pos

\* the bytes of the file from an offset, at most so many
FileBytes(from, count) == [i \in 1..count |-> from + i - 1]

\* nextImpl(): ::read gives at least one byte and at most the size of
\* internal_buffer while the file has bytes left, and 0 at its end;
\* EINTR only repeats the call
nextImpl(B, bytes_read) ==
    IF bytes_read = 0 THEN [B EXCEPT !.returned = FALSE]
    ELSE [B EXCEPT !.working_buffer = FileBytes(B.file_offset, bytes_read),
                   !.file_offset = @ + bytes_read,
                   !.pos_in_file = @ + bytes_read,
                   !.returned = TRUE]

\* what ::read can return at the offset of the descriptor
ReadResults(B) ==
    IF B.file_offset >= B.file_len THEN {0}
    ELSE 1 .. Min(B.internal_buffer_size, B.file_len - B.file_offset)

\* ReadBuffer::next(): nextImpl, an empty working buffer when it returned
\* false, pos at the begin of the working buffer
next(B, bytes_read) ==
    LET N == nextImpl(B, bytes_read)
    IN  [N EXCEPT !.working_buffer = IF N.returned THEN @ ELSE <<>>,
                  !.pos = 0]

\* a slip: a window that was read to its end is taken for the window around
\* pos_in_file
InWindow_IgnoresPos(B, new_pos) ==
    /\ new_pos <= B.pos_in_file
    /\ new_pos >= B.pos_in_file - Len(B.working_buffer)

\* the condition of line 79: the new position is inside the buffer
InWindow(B, new_pos) ==
    /\ B.pos # Len(B.working_buffer)
    /\ new_pos <= B.pos_in_file
    /\ new_pos >= B.pos_in_file - Len(B.working_buffer)

\* seek(offset, whence); lseek fails on a negative offset
seek(B, offset, whence) ==
    LET new_pos == IF whence = "SEEK_CUR" THEN B.pos_in_file - Available(B) + offset ELSE offset
    IN  IF new_pos + Available(B) = B.pos_in_file
        THEN [B EXCEPT !.served = "unmoved", !.expect = new_pos, !.known = TRUE]
        ELSE IF InWindow(B, new_pos)
        THEN [B EXCEPT !.pos = new_pos - (B.pos_in_file - Len(B.working_buffer)),
                       !.served = "window", !.expect = new_pos, !.known = TRUE]
        ELSE IF new_pos < 0
        THEN [B EXCEPT !.pos = Len(B.working_buffer),
                       !.served = "CANNOT_SEEK_THROUGH_FILE", !.known = FALSE]
        ELSE [B EXCEPT !.pos = Len(B.working_buffer),
                       !.file_offset = new_pos,
                       !.pos_in_file = new_pos,
                       !.served = "lseek", !.expect = new_pos, !.known = TRUE]

InitReadBuffer ==
    /\ \E file_len \in 0..MaxFileLen : \E buf_size \in 1..MaxBufSize :
           tinylog = [file_len |-> file_len, internal_buffer_size |-> buf_size,
                      file_offset |-> 0, pos_in_file |-> 0,
                      working_buffer |-> <<>>, pos |-> 0, returned |-> FALSE,
                      served |-> "", expect |-> 0, known |-> TRUE,
                      delivered |-> "", byte |-> 0, wanted |-> 0, since_seek |-> 0]
    /\ choose = Null /\ states = Null /\ distinct = Null /\ memory = Null
    /\ column = Null /\ views = Null
    /\ MoreIdle
    /\ AggIdle
    /\ PoolIdle

\* the caller reads a byte: eof() calls next() at the end of the working
\* buffer; the byte at pos is delivered
BufferRead ==
    /\ tinylog # Null
    /\ \E bytes_read \in ReadResults(tinylog) :
           LET B == IF Available(tinylog) = 0 THEN next(tinylog, bytes_read) ELSE tinylog
           IN  tinylog' =
                   IF Available(B) = 0
                   THEN [B EXCEPT !.delivered = "eof", !.wanted = B.expect]
                   ELSE [B EXCEPT !.delivered = "byte",
                                  !.byte = B.working_buffer[B.pos + 1],
                                  !.wanted = B.expect,
                                  !.pos = @ + 1,
                                  !.expect = Min(@ + 1, MaxFileLen + 1),
                                  !.since_seek = Min(@ + 1, 2)]
    /\ UNCHANGED nonTinyLogVars

BufferSeek ==
    /\ tinylog # Null
    /\ \E offset \in SeekOffsets : \E whence \in {"SEEK_SET", "SEEK_CUR"} :
           /\ whence = "SEEK_SET" => offset + 1 >= 0
           /\ LET S == seek(tinylog, offset, whence)
              IN  /\ S.pos_in_file <= MaxFileLen + 1
                  /\ S.expect <= MaxFileLen + 1
                  /\ tinylog' = [S EXCEPT !.delivered = "", !.since_seek = 0]
    /\ UNCHANGED nonTinyLogVars

NextReadBuffer ==
    \/ BufferRead
    \/ BufferSeek

SpecReadBuffer == InitReadBuffer /\ [][NextReadBuffer]_vars

\* C33: for any sequence of reads and seeks (SEEK_SET or SEEK_CUR) on a
\* ReadBufferFromFileDescriptor, pos_in_file always equals the file offset
\* that corresponds to working_buffer.end(): it is the offset of the
\* descriptor, and the bytes left in the buffer are the bytes of the file
\* before it; the bytes delivered after seek(offset) are the bytes of the
\* file starting at the requested logical offset, whether the seek was
\* served inside the buffered window (no lseek issued) or by lseek.
C33_SeekRefinesFile ==
    tinylog # Null =>
        /\ tinylog.pos_in_file = tinylog.file_offset
        /\ \A i \in tinylog.pos + 1 .. Len(tinylog.working_buffer) :
               tinylog.working_buffer[i] =
                   tinylog.pos_in_file - Len(tinylog.working_buffer) + i - 1
        /\ (tinylog.known /\ tinylog.delivered = "byte") =>
               /\ tinylog.byte = tinylog.wanted
               /\ tinylog.wanted < tinylog.file_len
        /\ (tinylog.known /\ tinylog.delivered = "eof") =>
               tinylog.wanted >= tinylog.file_len

\* a seek back into the window was served without lseek and two bytes were
\* delivered after it
C33_Witness ==
    /\ tinylog # Null
    /\ tinylog.served = "window"
    /\ tinylog.since_seek = 2
    /\ tinylog.delivered = "byte"
    /\ tinylog.byte = 1
    /\ tinylog.file_offset = 3


(***************************************************************************)
(* Client::receiveResult and receivePacket: the client, the packets on the *)
(* connection, the server that sends them and the user at the keyboard.    *)
(***************************************************************************)

MaxPackets == 3

\* the packets that go on: Data, Progress, ProfileInfo, Totals, Extremes
GoOnPackets == {"Data", "Progress", "ProfileInfo", "Totals", "Extremes"}

\* the packets that end the result of a query
FinalPackets == {"Exception", "EndOfStream"}

\* what a server can send, a type the client does not know included
ServerPackets == GoOnPackets \cup FinalPackets \cup {"Unknown"}

\* the handlers that write to the output of the client and can throw
ThrowingHandlers == {"Data", "Totals", "Extremes"}

\* a slip: after Cancel the client does not wait for the rest
checkInterrupt_ReturnsAfterCancel(C) ==
    IF C.cancelled THEN [C EXCEPT !.pc = "receive"]
    ELSE IF C.interrupt
         THEN [C EXCEPT !.interrupt = FALSE, !.cancelled = TRUE,
                        !.cancels_sent = @ + 1, !.pc = "returned"]
    ELSE [C EXCEPT !.pc = "receive"]

\* the head of the loop of receiveResult, lines 673-687, when it goes on to
\* receivePacket: Cancel is sent once, at the first interrupt
checkInterrupt(C) ==
    IF C.cancelled THEN [C EXCEPT !.pc = "receive"]
    ELSE IF C.interrupt
         THEN [C EXCEPT !.interrupt = FALSE, !.cancelled = TRUE,
                        !.cancels_sent = @ + 1, !.pc = "receive"]
    ELSE [C EXCEPT !.pc = "receive"]

\* receivePacket() on the next packet of the connection, and what
\* receiveResult does with its result
receivePacket(C, handler_throws) ==
    LET packet == Head(C.connection)
        R == [C EXCEPT !.connection = Tail(@), !.last = packet,
                       !.after_cancel = IF C.cancelled THEN Min(@ + 1, 2) ELSE @]
    IN  IF packet \in GoOnPackets
        THEN IF handler_throws /\ packet \in ThrowingHandlers
             THEN [R EXCEPT !.pc = "thrown", !.thrown = "handler"]
             ELSE [R EXCEPT !.pc = "check"]
        ELSE IF packet \in FinalPackets THEN [R EXCEPT !.pc = "returned"]
        ELSE [R EXCEPT !.pc = "thrown", !.thrown = "UNKNOWN_PACKET_FROM_SERVER"]

InitClient ==
    /\ views = [pc |-> "check", cancelled |-> FALSE, cancels_sent |-> 0,
                interrupt |-> FALSE, connection |-> <<>>,
                server_done |-> FALSE, sent |-> 0,
                last |-> "", thrown |-> "", after_cancel |-> 0]
    /\ choose = Null /\ states = Null /\ distinct = Null /\ tinylog = Null
    /\ memory = Null /\ column = Null
    /\ MoreIdle
    /\ AggIdle
    /\ PoolIdle

\* the server sends the next packet of the result; the last one it may
\* send is a final one
ServerSends ==
    /\ views # Null
    /\ ~views.server_done
    /\ \E packet \in ServerPackets :
           /\ views.sent + 1 = MaxPackets => packet \in FinalPackets
           /\ views' = [views EXCEPT !.connection = Append(@, packet),
                                     !.sent = @ + 1,
                                     !.server_done = packet \in FinalPackets]
    /\ UNCHANGED nonViewsVars

\* Ctrl+C while the listener blocks the signal
Interrupt ==
    /\ views # Null
    /\ views.pc \in {"check", "receive"}
    /\ ~views.cancelled
    /\ ~views.interrupt
    /\ views' = [views EXCEPT !.interrupt = TRUE]
    /\ UNCHANGED nonViewsVars

\* Ctrl+C after interrupt_listener.unblock(): the process ends
InterruptAgain ==
    /\ views # Null
    /\ views.pc \in {"check", "receive"}
    /\ views.cancelled
    /\ views' = [views EXCEPT !.pc = "terminated"]
    /\ UNCHANGED nonViewsVars

\* the head of the loop; without interrupt and without data, poll times out
\* and the loop starts again
ClientChecks ==
    /\ views # Null
    /\ views.pc = "check"
    /\ views.cancelled \/ views.interrupt \/ views.connection # <<>>
    /\ views' = checkInterrupt(views)
    /\ UNCHANGED nonViewsVars

\* sendCancel or connection->receivePacket throws: the connection is broken
ConnectionThrows ==
    /\ views # Null
    /\ views.pc = "receive"
    /\ views' = [views EXCEPT !.pc = "thrown", !.thrown = "connection"]
    /\ UNCHANGED nonViewsVars

\* receivePacket() waits for a packet and handles it
ClientReceives ==
    /\ views # Null
    /\ views.pc = "receive"
    /\ views.connection # <<>>
    /\ \E handler_throws \in BOOLEAN : views' = receivePacket(views, handler_throws)
    /\ UNCHANGED nonViewsVars

NextClient ==
    \/ ServerSends
    \/ Interrupt
    \/ InterruptAgain
    \/ ClientChecks
    \/ ConnectionThrows
    \/ ClientReceives

SpecClient == InitClient /\ [][NextClient]_vars

\* nothing of the result of the query is unread or still to come
NothingUnread == views.connection = <<>> /\ views.server_done

\* Cancel is sent at most once, and receiveResult returns only after a final
\* packet, with nothing unread
ReturnsAfterFinal ==
    /\ views.cancels_sent <= 1
    /\ views.pc = "returned" => views.last \in FinalPackets /\ NothingUnread

\* C34 as stated: while receiving a query result, the client sends Cancel at
\* most once per query, and after sending it keeps receiving and handling
\* packets; receiveResult returns only after an EndOfStream or an Exception
\* packet has been received (or fails on an unknown packet type), never
\* leaving unread packets of the current query on the connection.
C34_Original ==
    views # Null =>
        /\ ReturnsAfterFinal
        /\ views.pc = "thrown" => views.thrown = "UNKNOWN_PACKET_FROM_SERVER"
        /\ (views.pc \in {"returned", "thrown"} /\ views.thrown # "UNKNOWN_PACKET_FROM_SERVER")
               => NothingUnread

\* C34 amended: Cancel is sent at most once per query and the client goes on
\* receiving after it; receiveResult returns only after an EndOfStream or an
\* Exception packet, and then no packet of the query is unread; it is also
\* left by an exception, on an unknown packet type, from a handler of a
\* packet or from the connection, and then packets may stay unread.
C34_Amended ==
    views # Null =>
        /\ ReturnsAfterFinal
        /\ views.pc = "thrown" =>
               views.thrown \in {"UNKNOWN_PACKET_FROM_SERVER", "handler", "connection"}
        /\ views.cancelled => views.cancels_sent = 1

\* Cancel was sent, a Data packet and then EndOfStream were received after
\* it, and receiveResult has returned
C34_Witness ==
    /\ views # Null
    /\ views.pc = "returned"
    /\ views.cancelled
    /\ views.cancels_sent = 1
    /\ views.after_cancel = 2
    /\ views.last = "EndOfStream"


(***************************************************************************)
(* Aggregator::convertToBlock: who owns the aggregate states and the       *)
(* arenas once the result was turned into a block.                         *)
(***************************************************************************)

\* no allocation and no constructor fails
NoFault == [alloc_no |-> 0, throw_at |-> 0]

\* the pointers of the result: the groups of the table, and without_key at
\* row 0 when there is no key or an overflow row
StatePointers(S) ==
    (IF S.type = "WITHOUT_KEY" \/ S.overflow_row THEN {S.without_key} ELSE {})
        \cup (IF S.type \in KeyedTypes THEN {S.data[k] : k \in DOMAIN S.data} ELSE {})

\* a slip: the result goes on as an owner of the states
convertToBlock_KeepsAggregator(S, final) ==
    IF S.type = "EMPTY" THEN [S EXCEPT !.converted = "empty"]
    ELSE IF final
         THEN [S EXCEPT !.converted = "final", !.block_alive = TRUE]
    ELSE [S EXCEPT !.converted = "not final", !.block_alive = TRUE,
                   !.column_data = StatePointers(S),
                   !.arena_owners = @ \cup {"column"}]

\* convertToBlock(data_variants, final): with final the values go to the
\* block and the states stay with the result; without it every
\* ColumnAggregateFunction takes every arena and the pointers to the states
\* of its function, and the result lets go of the states
convertToBlock(S, final) ==
    IF S.type = "EMPTY" THEN [S EXCEPT !.converted = "empty"]
    ELSE IF final
         THEN [S EXCEPT !.converted = "final", !.block_alive = TRUE]
    ELSE [S EXCEPT !.converted = "not final", !.block_alive = TRUE,
                   !.column_data = StatePointers(S),
                   !.arena_owners = @ \cup {"column"},
                   !.aggregator = FALSE]

RECURSIVE destroyColumnData(_, _)
\* ~ColumnAggregateFunction of every column of the block: destroy() of its
\* function on every pointer it holds
destroyColumnData(S, ptrs) ==
    IF ptrs = {} THEN S
    ELSE LET ptr == CHOOSE q \in ptrs : TRUE
         IN  destroyColumnData(DestroyStates(S, ptr), ptrs \ {ptr})

\* an owner of the arenas goes away; the memory goes with the last one
releaseArenas(S, owner) ==
    [S EXCEPT !.arena_owners = @ \ {owner}]

InitConvert ==
    /\ \E key_columns \in {<<>>, <<ColumnString>>} :
       \E overflow_row \in BOOLEAN :
       \E aggregates_size \in 1..MaxAggregates :
       \E trivial \in BOOLEAN :
           states = [key_columns |-> key_columns,
                     overflow_row |-> overflow_row,
                     aggregates_size |-> aggregates_size,
                     all_aggregates_has_trivial_destructor |-> trivial,
                     type |-> "EMPTY",
                     aggregator |-> FALSE,
                     data |-> [k \in {} |-> 0],
                     without_key |-> 0,
                     arena |-> <<>>,
                     allocs |-> 0,
                     calls |-> 0,
                     null_destroyed |-> 0,
                     last_throw |-> [region |-> 0, throw_at |-> 0, slot |-> ""],
                     pc |-> "alive",
                     converted |-> "no",
                     block_alive |-> FALSE,
                     column_data |-> {},
                     arena_owners |-> {"result"},
                     used_after_free |-> FALSE]
    /\ choose = Null /\ distinct = Null /\ tinylog = Null /\ memory = Null
    /\ column = Null /\ views = Null
    /\ MoreIdle
    /\ AggIdle
    /\ PoolIdle

\* executeOnBlock on the next block of keys
ConvertExecute ==
    /\ states # Null
    /\ states.pc = "alive"
    /\ states.converted = "no"
    /\ states.calls < MaxBlocks
    /\ \E block \in KeyBlocks : states' = executeOnBlockStates(states, block, NoFault)
    /\ UNCHANGED nonStatesVars

ConvertToBlock ==
    /\ states # Null
    /\ states.pc = "alive"
    /\ states.converted = "no"
    /\ \E final \in BOOLEAN : states' = convertToBlock(states, final)
    /\ UNCHANGED nonStatesVars

\* ~AggregatedDataVariants(), then its members with the arenas
DestroyResult ==
    /\ states # Null
    /\ states.pc = "alive"
    /\ LET D == IF states.aggregator /\ ~states.all_aggregates_has_trivial_destructor
                THEN destroyAllAggregateStates(states)
                ELSE states
       IN  states' = [releaseArenas(D, "result") EXCEPT !.pc = "destroyed"]
    /\ UNCHANGED nonStatesVars

\* the block goes away: its columns destroy the states they hold and let
\* go of the arenas
DestroyBlock ==
    /\ states # Null
    /\ states.block_alive
    /\ LET D == IF states.all_aggregates_has_trivial_destructor THEN states
                ELSE destroyColumnData(states, states.column_data)
       IN  states' = [releaseArenas(D, "column") EXCEPT
                          !.block_alive = FALSE,
                          !.used_after_free = @ \/ (states.column_data # {} /\ states.arena_owners = {})]
    /\ UNCHANGED nonStatesVars

NextConvert ==
    \/ ConvertExecute
    \/ ConvertToBlock
    \/ DestroyResult
    \/ DestroyBlock

SpecConvert == InitConvert /\ [][NextConvert]_vars

\* how often the state of function i in region ptr was destroyed
TimesDestroyed(S, ptr, i) == S.arena[ptr][i].destroyed

\* C35: after a non-final convertToBlock, the aggregate states are owned by
\* the output aggregate-state columns, which share every arena of the
\* result, and the AggregatedDataVariants no longer destroys them:
\* destroying the result object destroys no state referenced by the output
\* column, and each state has exactly one owner responsible for destroying
\* it.
C35_StatesOwnedByColumns ==
    (states # Null /\ states.converted = "not final") =>
        /\ ~states.aggregator
        /\ \A ptr \in 1..Len(states.arena) : ptr \in states.column_data
        /\ states.block_alive =>
               /\ "column" \in states.arena_owners
               /\ \A ptr \in states.column_data : \A i \in 1..states.aggregates_size :
                      TimesDestroyed(states, ptr, i) = 0
        /\ ~states.block_alive =>
               \A ptr \in states.column_data : \A i \in 1..states.aggregates_size :
                   TimesDestroyed(states, ptr, i) =
                       IF states.all_aggregates_has_trivial_destructor THEN 0 ELSE 1
        /\ ~states.used_after_free

\* the result of two functions and three groups was converted, the result
\* went away first and the block after it: every state was destroyed once
C35_Witness ==
    /\ states # Null
    /\ states.converted = "not final"
    /\ states.pc = "destroyed"
    /\ ~states.block_alive
    /\ states.aggregates_size = 2
    /\ ~states.all_aggregates_has_trivial_destructor
    /\ Cardinality(states.column_data) = 3
    /\ \A ptr \in states.column_data : TimesDestroyed(states, ptr, 1) = 1


----------------------------------------------------------------------------
(* DistinctBlockInputStream with a limit.                                  *)

\* the first n elements of a sequence, all of it when it is shorter
FirstRows(rows, n) == SubSeq(rows, 1, IF n < Len(rows) THEN n ELSE Len(rows))

\* the set of the Distinct stream S holds limit fingerprints
LimitReached(S) == S.limit # 0 /\ Cardinality(S.set) >= S.limit

\* C36: with a non-zero limit, a Distinct stream stops accepting rows as
\* soon as its set holds limit fingerprints: it never emits more than limit
\* rows in total over its lifetime, rows after the limit-th new row in a
\* block are filtered out (what it has emitted is the first limit of the
\* first occurrences among the rows read, while no cap is exceeded), and
\* every read after the limit was reached returns an empty block without
\* reading the child.
C36_LimitStops ==
    [][(distinct # Null /\ distinct.limit # 0 /\ distinct' # distinct) =>
           /\ Len(distinct'.emitted) <= distinct.limit
           /\ Cardinality(distinct'.set) <= distinct.limit
           /\ ~CapExceeded' =>
                  distinct'.emitted =
                      FirstRows(FirstOccurrences(ConsumedRows', Len(ConsumedRows'),
                                                 distinct.columns_names),
                                distinct.limit)
           /\ LimitReached(distinct) =>
                  /\ distinct'.last = "empty"
                  /\ distinct'.last_block = <<>>
                  /\ distinct'.emitted = distinct.emitted
                  /\ distinct'.set = distinct.set
                  /\ distinct'.child_reads = distinct.child_reads
                  /\ distinct'.child_pos = distinct.child_pos]_vars

\* a block of two new rows met the limit of one: its first row was emitted,
\* its second was not, and the next read returned an empty block and left
\* the second block of the child unread
C36_Witness ==
    /\ distinct # Null
    /\ distinct.limit = 1
    /\ Len(distinct.child) = 2
    /\ distinct.child_pos = 1
    /\ distinct.child_reads = 1
    /\ Len(distinct.child[1]) = 2
    /\ Fingerprint(distinct.child[1][1], distinct.columns_names)
           # Fingerprint(distinct.child[1][2], distinct.columns_names)
    /\ distinct.emitted = <<distinct.child[1][1]>>
    /\ distinct.last = "empty"
    /\ distinct.reads_after_end = 1


----------------------------------------------------------------------------
(* MergeTreeReadPool: draining the pool with stealing enabled.             *)

\* a pool with stealing enabled
InitPoolStealing == InitPool /\ ~do_not_steal_tasks

\* callers go on calling getTask, and the constructor runs to its end
SpecPoolFair == InitPoolStealing /\ [][NextPool]_vars /\ WF_vars(NextPool)

\* how often mark m lies in a list of ranges
TimesInRanges(ranges, m) ==
    Cardinality({i \in 1..Len(ranges) : ranges[i].begin <= m /\ m < ranges[i].end})

RECURSIVE TimesInSegments(_, _, _)
\* how often mark m of part part_idx lies in the segments of a queue
TimesInSegments(segments, part_idx, m) ==
    IF segments = <<>> THEN 0
    ELSE (IF Head(segments).part_idx = part_idx
          THEN TimesInRanges(Head(segments).ranges, m) ELSE 0)
         + TimesInSegments(Tail(segments), part_idx, m)

RECURSIVE TimesInQueues(_, _, _)
\* how often mark m of part part_idx lies in the queues of threads 0..t
TimesInQueues(t, part_idx, m) ==
    IF t < 0 THEN 0
    ELSE TimesInSegments(threads_tasks[t].parts_and_ranges, part_idx, m)
         + TimesInQueues(t - 1, part_idx, m)

\* where mark m of part part_idx is: not yet spread, in a queue, returned
Whereabouts(part_idx, m) ==
    (IF part_idx <= Len(parts) THEN TimesInRanges(parts[part_idx].ranges, m) ELSE 0)
        + TimesInQueues(threads - 1, part_idx, m)
        + handed[part_idx][m]

\* the last getTask call returned none
NoneReturned == last_task # Null /\ ~last_task.returned

\* nothing is left to spread or to return, and no mark was returned twice
PoolDrained ==
    /\ parts = <<>>
    /\ remaining_thread_tasks = {}
    /\ \A t \in 0..(threads - 1) : threads_tasks[t].parts_and_ranges = <<>>
    /\ \A part_idx \in DOMAIN handed : \A m \in DOMAIN handed[part_idx] :
           handed[part_idx][m] <= 1

\* C37: with stealing enabled, sum_marks equal to the real total and
\* min_marks_to_read >= 1, if callers keep invoking getTask until it returns
\* none, then none is returned after finitely many calls and by then every
\* mark of every input range has been returned in exactly one task; nothing
\* is lost even when only a single thread ever calls getTask, and getTask
\* returns none only when no thread has marks left. Every step keeps every
\* mark of the input where it is or moves it on (from the parts to a queue,
\* from a queue to a task); a none finds the parts and every queue empty;
\* and a constructed pool leads to a none.
C37_DrainedByStealing ==
    /\ [][~do_not_steal_tasks =>
              \A part_idx \in DOMAIN handed : \A m \in DOMAIN handed[part_idx] :
                  /\ Whereabouts(part_idx, m)' = Whereabouts(part_idx, m)
                  /\ Whereabouts(part_idx, m) <= 1
                  /\ handed'[part_idx][m] >= handed[part_idx][m]]_vars
    /\ []((~do_not_steal_tasks /\ NoneReturned) => PoolDrained)
    /\ (~do_not_steal_tasks /\ pool_pc = "ready") ~> (NoneReturned /\ PoolDrained)

\* two parts were spread over two threads, and getTask returned none after
\* every mark had been returned once; the last task but one was stolen
C37_Witness ==
    /\ ~do_not_steal_tasks
    /\ threads = 2
    /\ pool_pc = "ready"
    /\ NoneReturned
    /\ PoolDrained
    /\ sum_marks = MaxMark
    /\ DOMAIN handed = 1..2
    /\ \E m \in DOMAIN handed[1] : handed[1][m] = 1
    /\ \E m \in DOMAIN handed[2] : handed[2][m] = 1


----------------------------------------------------------------------------
(* Aggregator::merge of two results when merge() of an aggregate function  *)
(* throws: who destroys the states afterwards.                             *)

\* merge() calls of one Aggregator::merge, at most
MaxMergeCalls == 4

\* the orders the source table may be walked in
Orders(keys) == { o \in [1..Cardinality(keys) -> keys] : \A i, j \in DOMAIN o : i # j => o[i] # o[j] }

\* a result as destroyAllAggregateStates sees it
VariantView(S, V) ==
    [type |-> V.type, overflow_row |-> FALSE, without_key |-> V.without_key, data |-> V.data,
     aggregates_size |-> S.aggregates_size, arena |-> S.arena,
     null_destroyed |-> S.null_destroyed]

\* ~AggregatedDataVariants of the result V
destroyVariants(S, V) ==
    IF V.aggregator /\ ~S.all_aggregates_has_trivial_destructor
    THEN LET D == destroyAllAggregateStates(VariantView(S, V))
         IN  [S EXCEPT !.arena = D.arena, !.null_destroyed = D.null_destroyed]
    ELSE S

RECURSIVE mergeStates(_, _, _)
\* for every function from i on: merge(dst + offset, src + offset), then
\* destroy(src + offset); the merge call number throw_at throws
mergeStates(S, src_ptr, i) ==
    IF i > S.aggregates_size THEN S
    ELSE IF S.calls + 1 = S.throw_at THEN [S EXCEPT !.calls = @ + 1, !.thrown = TRUE]
    ELSE mergeStates([S EXCEPT !.calls = @ + 1,
                               !.arena[src_ptr][i].destroyed = @ + 1],
                     src_ptr, i + 1)

RECURSIVE mergeDataImplStates(_, _, _)
\* mergeDataImpl(method_dst, method_src): the groups of the source in the
\* order of its table; a key the destination has is merged into it and
\* destroyed, a new key takes the pointer of the source
mergeDataImplStates(S, order, n) ==
    IF n > Len(order) \/ S.thrown THEN S
    ELSE LET key == order[n]
             it == S.current.data[key]
         IN  IF key \in DOMAIN S.res.data
             THEN mergeDataImplStates(mergeStates(S, it, 1), order, n + 1)
             ELSE mergeDataImplStates(
                      [S EXCEPT !.res.data = [k \in DOMAIN @ \cup {key} |->
                                                 IF k = key THEN it ELSE @[k]]],
                      order, n + 1)

\* Aggregator::merge(data_variants) of two results of the same type, none
\* of them empty; current gives up its states only at the end
mergeVariants(S, order) ==
    LET M1 == IF S.res.type = "WITHOUT_KEY" THEN mergeStates(S, S.current.without_key, 1) ELSE S
        M2 == IF S.res.type \in KeyedTypes THEN mergeDataImplStates(M1, order, 1) ELSE M1
    IN  IF M2.thrown THEN [M2 EXCEPT !.pc = "thrown"]
        ELSE [M2 EXCEPT !.current.aggregator = FALSE, !.pc = "merged"]

\* n regions of constructed states
ConstructedArena(n, aggregates_size) ==
    [ptr \in 1..n |-> [i \in 1..aggregates_size |-> [created |-> 1, destroyed |-> 0]]]

InitMergeStates ==
    /\ \E aggregates_size \in 1..MaxAggregates :
       \E trivial \in BOOLEAN :
       \E throw_at \in 0..MaxMergeCalls :
          \/ states = [aggregates_size |-> aggregates_size,
                       all_aggregates_has_trivial_destructor |-> trivial,
                       throw_at |-> throw_at, calls |-> 0, thrown |-> FALSE,
                       arena |-> ConstructedArena(2, aggregates_size),
                       null_destroyed |-> 0,
                       res |-> [type |-> "WITHOUT_KEY", without_key |-> 1,
                                data |-> [k \in {} |-> 0], aggregator |-> TRUE, alive |-> TRUE],
                       current |-> [type |-> "WITHOUT_KEY", without_key |-> 2,
                                    data |-> [k \in {} |-> 0], aggregator |-> TRUE, alive |-> TRUE],
                       pc |-> "aggregated"]
          \/ \E res_keys \in (SUBSET Keys) \ {{}} :
             \E current_keys \in (SUBSET Keys) \ {{}} :
                 LET res_order == CHOOSE o \in Orders(res_keys) : TRUE
                     current_order == CHOOSE o \in Orders(current_keys) : TRUE
                     res_ptr == [k \in res_keys |->
                                    CHOOSE n \in DOMAIN res_order : res_order[n] = k]
                     current_ptr == [k \in current_keys |->
                                    Cardinality(res_keys)
                                        + CHOOSE n \in DOMAIN current_order : current_order[n] = k]
                 IN  states = [aggregates_size |-> aggregates_size,
                               all_aggregates_has_trivial_destructor |-> trivial,
                               throw_at |-> throw_at, calls |-> 0, thrown |-> FALSE,
                               arena |-> ConstructedArena(Cardinality(res_keys)
                                                              + Cardinality(current_keys),
                                                          aggregates_size),
                               null_destroyed |-> 0,
                               res |-> [type |-> "KEY_STRING", without_key |-> 0,
                                        data |-> res_ptr, aggregator |-> TRUE, alive |-> TRUE],
                               current |-> [type |-> "KEY_STRING", without_key |-> 0,
                                            data |-> current_ptr, aggregator |-> TRUE,
                                            alive |-> TRUE],
                               pc |-> "aggregated"]
    /\ choose = Null /\ distinct = Null /\ tinylog = Null /\ memory = Null
    /\ column = Null /\ views = Null
    /\ MoreIdle
    /\ AggIdle
    /\ PoolIdle

\* Aggregator::merge of the two results
MergeVariants ==
    /\ states # Null
    /\ states.pc = "aggregated"
    /\ \E order \in Orders(DOMAIN states.current.data) :
           states' = mergeVariants(states, order)
    /\ UNCHANGED nonStatesVars

\* the merged-into result goes away
DestroyRes ==
    /\ states # Null
    /\ states.pc \in {"merged", "thrown"}
    /\ states.res.alive
    /\ states' = [destroyVariants(states, states.res) EXCEPT !.res.alive = FALSE]
    /\ UNCHANGED nonStatesVars

\* the source result goes away
DestroyCurrent ==
    /\ states # Null
    /\ states.pc \in {"merged", "thrown"}
    /\ states.current.alive
    /\ states' = [destroyVariants(states, states.current) EXCEPT !.current.alive = FALSE]
    /\ UNCHANGED nonStatesVars

NextMergeStates ==
    \/ MergeVariants
    \/ DestroyRes
    \/ DestroyCurrent

SpecMergeStates == InitMergeStates /\ [][NextMergeStates]_vars

\* C38: if an aggregate function's merge throws in the middle of
\* Aggregator::merge, every aggregate state is still destroyed exactly
\* once: source states that were already merged and destroyed, or whose
\* ownership was already transferred to the destination table, are not
\* destroyed a second time when the source and destination results are
\* later destroyed.
C38_DestroyedOnceAfterThrow ==
    (states # Null /\ states.pc = "thrown"
        /\ ~states.all_aggregates_has_trivial_destructor) =>
        \A ptr \in DOMAIN states.arena : \A i \in 1..states.aggregates_size :
            /\ states.arena[ptr][i].destroyed <= 1
            /\ (~states.res.alive /\ ~states.current.alive) =>
                   states.arena[ptr][i].destroyed = 1

\* the same for a merge that does not throw: it holds
DestroyedOnceAfterMerge ==
    (states # Null /\ states.pc = "merged"
        /\ ~states.all_aggregates_has_trivial_destructor) =>
        \A ptr \in DOMAIN states.arena : \A i \in 1..states.aggregates_size :
            /\ states.arena[ptr][i].destroyed <= 1
            /\ (~states.res.alive /\ ~states.current.alive) =>
                   states.arena[ptr][i].destroyed = 1


----------------------------------------------------------------------------
(* StorageMemory::read: the streams and later writes.                      *)

RECURSIVE ReturnedByStreams(_, _)
\* the blocks the streams 1..t have returned, stream after stream
ReturnedByStreams(streams, t) ==
    IF t = 0 THEN <<>>
    ELSE ReturnedByStreams(streams, t - 1) \o streams[t].returned

\* C39: the streams returned by one StorageMemory::read call together
\* return exactly the blocks that were in the table when read was called,
\* each exactly once and in original order within a stream: a block
\* appended by a concurrent or later write is never returned by those
\* streams, for any thread count and any interleaving of reads with writes.
C39_ReadSnapshot ==
    (memory # Null /\ memory.read_called) =>
        LET all == ReturnedByStreams(memory.streams, Len(memory.streams))
        IN  /\ \A i \in DOMAIN all : all[i] <= memory.size_at_read
            /\ \A i, j \in DOMAIN all : i < j => all[i] < all[j]
            /\ (\A t \in DOMAIN memory.streams : memory.streams[t].last = "empty") =>
                   all = [i \in 1..memory.size_at_read |-> i]

\* the same while nothing is written after the read call: it holds
ReadSnapshotWithoutWrites ==
    (memory # Null /\ memory.read_called /\ Len(memory.data) = memory.size_at_read) =>
        LET all == ReturnedByStreams(memory.streams, Len(memory.streams))
        IN  /\ \A i \in DOMAIN all : all[i] <= memory.size_at_read
            /\ \A i, j \in DOMAIN all : i < j => all[i] < all[j]
            /\ (\A t \in DOMAIN memory.streams : memory.streams[t].last = "empty") =>
                   all = [i \in 1..memory.size_at_read |-> i]


----------------------------------------------------------------------------
(* DataPart::remove. The disk maps the names of the directories of the     *)
(* table to what is in them: "whole", all files of a part, or "partial",   *)
(* some of them deleted.                                                   *)

\* a slip: the directory is deleted under the name it has
RemovedName_Same(name) == name

\* "tmp2_" + name
RemovedName(name) == <<"t", "m", "p", "2", "_">> \o name

\* the disk without the directory dir
WithoutDir(disk, dir) == [d \in DOMAIN disk \ {dir} |-> disk[d]]

\* Poco::File(from).renameTo(to): rename(2) moves the directory in one step
renameTo(disk, from, to) ==
    IF from = to THEN disk
    ELSE [d \in (DOMAIN disk \ {from}) \cup {to} |-> IF d = to THEN disk[from] ELSE disk[d]]

\* rename(2) fails: there is no directory from, or to is a directory
\* with files in it
renameFails(disk, from, to) ==
    \/ from \notin DOMAIN disk
    \/ from # to /\ to \in DOMAIN disk

InitRemove ==
    /\ \E name \in Names \ {<<>>} :
       \E leftover \in {"none", "whole", "partial"} :
           LET part == [d \in {name} |-> "whole"]
               left == IF leftover = "none" \/ RemovedName(name) = name THEN part
                       ELSE [d \in {name, RemovedName(name)} |->
                                IF d = name THEN "whole" ELSE leftover]
           IN  datapart = [name |-> name, disk |-> left, pc |-> "idle"]
    /\ OldRestIdle
    /\ mergetree = Null /\ native = Null /\ profiling = Null /\ chunkmerger = Null
    /\ AggIdle
    /\ PoolIdle

\* remove(): Poco::File(from).renameTo(to)
RemoveRename ==
    /\ datapart # Null
    /\ datapart.pc = "idle"
    /\ LET from == datapart.name
           to == RemovedName(datapart.name)
       IN  \/ /\ renameFails(datapart.disk, from, to)
              /\ datapart' = [datapart EXCEPT !.pc = "thrown"]
           \/ /\ ~renameFails(datapart.disk, from, to)
              /\ datapart' = [datapart EXCEPT !.disk = renameTo(@, from, to),
                                              !.pc = "renamed"]
           \/ \* rename(2) fails for another reason
              datapart' = [datapart EXCEPT !.pc = "thrown"]
    /\ UNCHANGED nonDataPartVars

\* remove(): Poco::File(to).remove(true) deletes one more file
RemoveFiles ==
    /\ datapart # Null
    /\ datapart.pc = "renamed"
    /\ RemovedName(datapart.name) \in DOMAIN datapart.disk
    /\ datapart' = [datapart EXCEPT !.disk[RemovedName(datapart.name)] = "partial"]
    /\ UNCHANGED nonDataPartVars

\* remove(): Poco::File(to).remove(true) deletes the last file and the
\* directory
RemoveDirectory ==
    /\ datapart # Null
    /\ datapart.pc = "renamed"
    /\ RemovedName(datapart.name) \in DOMAIN datapart.disk
    /\ datapart' = [datapart EXCEPT !.disk = WithoutDir(@, RemovedName(datapart.name)),
                                    !.pc = "removed"]
    /\ UNCHANGED nonDataPartVars

\* remove(true) throws
RemoveThrows ==
    /\ datapart # Null
    /\ datapart.pc = "renamed"
    /\ datapart' = [datapart EXCEPT !.pc = "thrown"]
    /\ UNCHANGED nonDataPartVars

\* the server stops before, between or within the two steps
RemoveCrash ==
    /\ datapart # Null
    /\ datapart.pc \in {"idle", "renamed"}
    /\ datapart' = [datapart EXCEPT !.pc = "crashed"]
    /\ UNCHANGED nonDataPartVars

NextRemove ==
    \/ RemoveRename
    \/ RemoveFiles
    \/ RemoveDirectory
    \/ RemoveThrows
    \/ RemoveCrash

SpecRemove == InitRemove /\ [][NextRemove]_vars

\* C40: DataPart::remove first renames the part directory to a
\* tmp2_-prefixed name and only then deletes its contents, so at every
\* intermediate point, including a crash between or during the two steps,
\* no partially deleted part directory exists under a name that does not
\* start with tmp.
C40_PartialOnlyUnderTmp ==
    datapart # Null =>
        /\ \A d \in DOMAIN datapart.disk :
               datapart.disk[d] = "partial" => StartsWithTmp(d)
        /\ datapart.pc \in {"renamed", "removed"} => datapart.name \notin DOMAIN datapart.disk
        /\ (datapart.name \in DOMAIN datapart.disk /\ ~StartsWithTmp(datapart.name)) =>
               datapart.disk[datapart.name] = "whole"

\* the server stopped while the files of a part with a name that does not
\* start with tmp were being deleted: what is left has the tmp2_ name
C40_Witness ==
    /\ datapart # Null
    /\ datapart.pc = "crashed"
    /\ ~StartsWithTmp(datapart.name)
    /\ datapart.name \notin DOMAIN datapart.disk
    /\ RemovedName(datapart.name) \in DOMAIN datapart.disk
    /\ datapart.disk[RemovedName(datapart.name)] = "partial"

====
